---- MODULE Spec2Model ----
(***************************************************************************)
(* py-magic-canvas: the rendering and compositing pipeline.                *)
(*                                                                         *)
(*   main.py            curved-text layout (MagicCanvasApp)                *)
(*   drawing_tools.py   GradientTools                                      *)
(*   export_options.py  ImageExporter                                      *)
(*   image_filters.py   BasicFilters, ImageAdjustments, ArtisticEffects,   *)
(*                      FilterPresets                                      *)
(*                                                                         *)
(*   color_palettes.py, font_manager.py, drawing_tools.py ShapeTools and   *)
(*                      TextEffects: the utility functions                 *)
(*   undo_redo.py       HistoryManager and the commands                    *)
(*                                                                         *)
(* Each component has its own specification (SpecText, SpecGradient,       *)
(* SpecExport, SpecFilter, SpecUtil, SpecHistory, SpecPreview); the        *)
(* variables of the other components stay at their initial value.          *)
(*                                                                         *)
(* Numbers.  Angles are integers in hundredths of a degree; pi is          *)
(* 355/113.  Floating-point products and quotients are computed exactly    *)
(* over the rationals and truncated where the code truncates (int()).      *)
(***************************************************************************)
EXTENDS Integers, Sequences, FiniteSets, TLC

VARIABLES
    \* ---- main.py, MagicCanvasApp ----
    banner_text,    \* self.banner_text: the string, as the advance width of each character
    font_kern,      \* the loaded font: getlength(text) - sum of getlength(c), per adjacent pair
    arc_angle,      \* self.arc_angle (degrees)
    curve_radius,   \* self.curve_radius (pixels)
    arc,            \* what the last _draw_curved_text computed and placed
    \* ---- drawing_tools.py / main.py gradients ----
    grad,           \* the last gradient request and the image it produced
    \* ---- export_options.py ----
    fs,             \* the file system: path -> contents
    exp,            \* the last export_image / batch_export call and what it returned
    \* ---- image_filters.py ----
    heap,           \* the canvas objects alive: object id -> image
    call,           \* the last filter call: its name, input, output, exception
    \* ---- color_palettes.py ColorUtils, main.hex_to_rgb ----
    util,           \* the last call of a utility function: its arguments and its result
    \* ---- undo_redo.py ----
    hist,           \* a HistoryManager, the commands, the object they change, the last call
    \* ---- main.py, MagicCanvasApp rendering cache ----
    app             \* self.image, self.photo_image, the status bar, the last render

vars ==
    <<banner_text, font_kern, arc_angle, curve_radius, arc, grad, fs, exp, heap, call, util,
      hist, app>>

textVars == <<banner_text, font_kern, arc_angle, curve_radius, arc>>

(***************************************************************************)
(* Arithmetic helpers                                                      *)
(***************************************************************************)
Min(a, b) == IF a <= b THEN a ELSE b

Max(a, b) == IF a >= b THEN a ELSE b

RECURSIVE SumSeq(_)
SumSeq(s) == IF s = <<>> THEN 0 ELSE Head(s) + SumSeq(Tail(s))

\* sum of the first n elements of s
RECURSIVE SumFirst(_, _)
SumFirst(s, n) == IF n = 0 THEN 0 ELSE s[n] + SumFirst(s, n - 1)

(***************************************************************************)
(* main.py: MagicCanvasApp._draw_curved_text                               *)
(***************************************************************************)
MaxLen == 3

\* advance widths a glyph can have (0: a zero-width character)
GlyphWidths == {0, 20, 60, 100}

\* kerning of the font per adjacent pair, in pixels
Kerning == {-2, 0, 2}

\* the Arc Angle slider (main.py:164) and the Curve Radius slider (main.py:169)
ArcAngles == {60, 180, 300}

Radii == {80, 180, 400}

\* font.getlength(text): the sum of the advances plus the kerning between pairs
GetLength(text, kern) ==
    IF text = <<>> THEN 0
    ELSE Max(0, SumSeq(text) + kern * (Len(text) - 1))

\* math.degrees(total_width / radius), in hundredths of a degree:
\* 180 / pi = 180 * 113 / 355 = 4068 / 71
Degrees(total_width, radius) == (total_width * 406800) \div (71 * radius)

\* main.py:287  sweep_deg = max(10, min(360, self.arc_angle))
SweepDeg(angle) == 100 * Max(10, Min(360, angle))

ClampRadiusNone(r) == r

\* main.py:288  radius = max(20, self.curve_radius)
ClampRadius(r) == Max(20, r)

FitSweepNoCap(theta_total_deg, sweep_deg) == theta_total_deg

\* main.py:294  theta_deg = min(theta_total_deg, sweep_deg)
FitSweep(theta_total_deg, sweep_deg) == Min(theta_total_deg, sweep_deg)

StartAngleFromTop(theta_deg) == -9000

\* main.py:297  start_angle = -theta_deg / 2.0 - 90.0
StartAngle(theta_deg) == (-theta_deg) \div 2 - 9000

\* main.py:304  total_w = sum(widths) or 1
TotalW(widths) == IF SumSeq(widths) = 0 THEN 1 ELSE SumSeq(widths)

\* main.py:306-311, 333  the angle of the centre of character idx
CharAngle(widths, idx, start_angle, theta_deg) ==
    LET acc == SumFirst(widths, idx - 1)
        w   == widths[idx]
    IN  start_angle + ((2 * acc + w) * theta_deg) \div (2 * TotalW(widths))

PlaceholderArc ==
    [drawn |-> TRUE, exc |-> "none", radius |-> 0, sweep_deg |-> 0,
     theta_total_deg |-> 0, theta_deg |-> 0, start_angle |-> -9000, angles |-> <<-9000>>]

\* main.py:276-278  nothing computed, no glyph placed
NoArc ==
    [drawn |-> FALSE, exc |-> "none", radius |-> 0, sweep_deg |-> 0,
     theta_total_deg |-> 0, theta_deg |-> 0, start_angle |-> 0, angles |-> <<>>]

\* main.py:272-333  the layout _draw_curved_text computes for the current fields:
\* the radius and the sweep it used, the span, and the angle of every glyph it
\* pasted.  A division by zero (lines 291, 310) leaves it before any glyph.
DrawCurvedText(text, kern, angle, r) ==
    IF text = <<>> THEN NoArc
    ELSE
        LET total_width == GetLength(text, kern)
            sweep_deg   == SweepDeg(angle)
            radius      == ClampRadius(r)
        IN  IF radius = 0 \/ TotalW(text) = 0
            THEN [NoArc EXCEPT !.exc = "ZeroDivisionError", !.radius = radius,
                               !.sweep_deg = sweep_deg]
            ELSE
                LET theta_total_deg == Degrees(total_width, radius)
                    theta_deg       == FitSweep(theta_total_deg, sweep_deg)
                    start_angle     == StartAngle(theta_deg)
                IN  [drawn |-> TRUE, exc |-> "none", radius |-> radius,
                     sweep_deg |-> sweep_deg,
                     theta_total_deg |-> theta_total_deg, theta_deg |-> theta_deg,
                     start_angle |-> start_angle,
                     angles |-> [i \in 1..Len(text) |->
                                    CharAngle(text, i, start_angle, theta_deg)]]

TextInit ==
    /\ banner_text = <<60, 60, 60>>
    /\ font_kern = 0
    /\ arc_angle = 180
    /\ curve_radius = 180
    /\ arc = DrawCurvedText(<<60, 60, 60>>, 0, 180, 180)

TextIdle ==
    /\ banner_text = <<>>
    /\ font_kern = 0
    /\ arc_angle = 180
    /\ curve_radius = 180
    /\ arc = NoArc

\* main.py:230-250  _generate_preview: pull the controls, then draw the text
GeneratePreview(text, kern, angle, r) ==
    /\ banner_text' = text
    /\ font_kern' = kern
    /\ arc_angle' = angle
    /\ curve_radius' = r
    /\ arc' = DrawCurvedText(text, kern, angle, r)
    /\ UNCHANGED <<grad, fs, exp, heap, call, util, hist, app>>

\* main.py:154  a key release in the text entry: a character typed at the end
TypeChar ==
    \E w \in GlyphWidths :
        /\ Len(banner_text) < MaxLen
        /\ GeneratePreview(Append(banner_text, w), font_kern, arc_angle, curve_radius)

\* main.py:154  a key release in the text entry: the last character deleted
DeleteChar ==
    /\ banner_text # <<>>
    /\ GeneratePreview(SubSeq(banner_text, 1, Len(banner_text) - 1), font_kern,
                       arc_angle, curve_radius)

\* main.py:164  the Arc Angle slider moved
SlideArcAngle ==
    \E angle \in ArcAngles :
        GeneratePreview(banner_text, font_kern, angle, curve_radius)

\* main.py:169  the Curve Radius slider moved
SlideRadius ==
    \E r \in Radii : GeneratePreview(banner_text, font_kern, arc_angle, r)

\* main.py:219-223  another font chosen
BrowseFont ==
    \E kern \in Kerning : GeneratePreview(banner_text, kern, arc_angle, curve_radius)

(***************************************************************************)
(* drawing_tools.py: GradientTools;  main.py: create_linear_gradient       *)
(***************************************************************************)
MaxDim == 3

Black == <<0, 0, 0>>

White == <<255, 255, 255>>

\* the application's default background colours (main.py:119-120)
Teal == <<78, 205, 196>>

Slate == <<85, 98, 112>>

Colours == {Black, White, Teal, Slate}

\* canvas sizes: every small size, and the 100x1 strip
GradSizes == ((1..MaxDim) \X (1..MaxDim)) \cup {<<100, 1>>}

\* int(c1 + (c2 - c1) * num / den): the value is never negative, so int() is floor
LerpDiv(c1, c2, num, den) == c1 + ((c2 - c1) * num) \div den

\* floor(sqrt(num / den)) and ceil(sqrt(num / den)), both at most 255
FloorSqrtRatio(num, den) ==
    CHOOSE k \in 0..255 : k * k * den <= num /\ (k + 1) * (k + 1) * den > num

CeilSqrtRatio(num, den) ==
    CHOOSE k \in 0..255 : k * k * den >= num /\ (k = 0 \/ (k - 1) * (k - 1) * den < num)

\* int(c1 + (c2 - c1) * t) with t = sqrt(n / m) <= 1
LerpSqrt(c1, c2, n, m) ==
    LET d == c2 - c1
    IN  IF d >= 0 THEN c1 + FloorSqrtRatio(d * d * n, m)
        ELSE c1 - CeilSqrtRatio(d * d * n, m)

\* drawing_tools.py:123-128  direction == 'horizontal': t = x / width
HorizontalPixel(width, color1, color2, x) ==
    [ch \in 1..3 |-> LerpDiv(color1[ch], color2[ch], x, width)]

\* drawing_tools.py:130-135  direction == 'vertical': t = y / height
VerticalPixel(height, color1, color2, y) ==
    [ch \in 1..3 |-> LerpDiv(color1[ch], color2[ch], y, height)]

\* drawing_tools.py:137-146  direction == 'diagonal': t = sqrt(x^2+y^2) / sqrt(w^2+h^2)
DiagonalPixel(width, height, color1, color2, x, y) ==
    [ch \in 1..3 |->
        LerpSqrt(color1[ch], color2[ch], x * x + y * y, width * width + height * height)]

\* drawing_tools.py:112-148  GradientTools.create_linear_gradient
GT_create_linear_gradient(width, height, color1, color2, direction) ==
    [p \in (0..(width - 1)) \X (0..(height - 1)) |->
        CASE direction = "horizontal" -> HorizontalPixel(width, color1, color2, p[1])
          [] direction = "vertical"   -> VerticalPixel(height, color1, color2, p[2])
          [] direction = "diagonal"   ->
                DiagonalPixel(width, height, color1, color2, p[1], p[2])]

\* drawing_tools.py:158-159  center defaults to (width // 2, height // 2)
RadialCenter(width, height, center) ==
    IF center = <<>> THEN <<width \div 2, height \div 2>> ELSE center

RadialPixelReset(width, height, color1, color2, c, x, y) ==
    LET n == 4 * ((x - c[1]) * (x - c[1]) + (y - c[2]) * (y - c[2]))
        m == width * width + height * height
    IN  [ch \in 1..3 |->
            IF n >= m THEN color1[ch] ELSE LerpSqrt(color1[ch], color2[ch], n, m)]

\* drawing_tools.py:161-169  t = min(dist / max_dist, 1.0),
\* max_dist = sqrt((w/2)^2 + (h/2)^2): (dist / max_dist)^2 = 4 * dist^2 / (w^2 + h^2)
RadialPixel(width, height, color1, color2, c, x, y) ==
    LET n == 4 * ((x - c[1]) * (x - c[1]) + (y - c[2]) * (y - c[2]))
        m == width * width + height * height
    IN  [ch \in 1..3 |->
            IF n >= m THEN color2[ch] ELSE LerpSqrt(color1[ch], color2[ch], n, m)]

\* drawing_tools.py:150-172  GradientTools.create_radial_gradient
GT_create_radial_gradient(width, height, color1, color2, center) ==
    [p \in (0..(width - 1)) \X (0..(height - 1)) |->
        RadialPixel(width, height, color1, color2,
                    RadialCenter(width, height, center), p[1], p[2])]

\* main.py:76-80  t = i / max(band_len - 1, 1)
BandPixel(band_len, start_color, end_color, i) ==
    [ch \in 1..3 |-> LerpDiv(start_color[ch], end_color[ch], i, Max(band_len - 1, 1))]

\* main.py:66-87  create_linear_gradient: a 1-pixel band, resized to (w, h); the
\* resize replicates the band across the other axis
create_linear_gradient(w, h, start_color, end_color, vertical) ==
    LET band_len == IF vertical THEN h ELSE w
    IN  [p \in (0..(w - 1)) \X (0..(h - 1)) |->
            BandPixel(band_len, start_color, end_color, IF vertical THEN p[2] ELSE p[1])]

NoGrad ==
    [kind |-> "none", w |-> 0, h |-> 0, c1 |-> Black, c2 |-> Black,
     center |-> <<>>, done |-> FALSE, img |-> <<>>]

GradIdle == grad = NoGrad

\* the gradient requests: the arguments of a call, before it runs
GradRequests ==
    {[kind |-> k, w |-> size[1], h |-> size[2], c1 |-> c1, c2 |-> c2,
      center |-> <<>>, done |-> FALSE, img |-> <<>>] :
        k \in {"horizontal", "vertical", "diagonal", "radial",
               "main_vertical", "main_horizontal"},
        size \in GradSizes, c1 \in Colours, c2 \in Colours}
    \cup
    {[kind |-> "radial", w |-> sc[1], h |-> sc[2], c1 |-> c1, c2 |-> c2,
      center |-> <<sc[3], sc[4]>>, done |-> FALSE, img |-> <<>>] :
        sc \in {q \in (1..MaxDim) \X (1..MaxDim) \X (0..(MaxDim - 1)) \X (0..(MaxDim - 1)) :
                    q[3] < q[1] /\ q[4] < q[2]},
        c1 \in Colours, c2 \in Colours}

GradInit == grad \in GradRequests

\* a call of GradientTools.create_linear_gradient
LinearGradient ==
    /\ ~grad.done
    /\ grad.kind \in {"horizontal", "vertical", "diagonal"}
    /\ grad' = [grad EXCEPT !.done = TRUE,
                  !.img = GT_create_linear_gradient(grad.w, grad.h, grad.c1, grad.c2,
                                                    grad.kind)]
    /\ UNCHANGED <<textVars, fs, exp, heap, call, util, hist, app>>

\* a call of GradientTools.create_radial_gradient
RadialGradient ==
    /\ ~grad.done
    /\ grad.kind = "radial"
    /\ grad' = [grad EXCEPT !.done = TRUE,
                  !.img = GT_create_radial_gradient(grad.w, grad.h, grad.c1, grad.c2,
                                                    grad.center)]
    /\ UNCHANGED <<textVars, fs, exp, heap, call, util, hist, app>>

\* a call of main.create_linear_gradient
MainGradient ==
    /\ ~grad.done
    /\ grad.kind \in {"main_vertical", "main_horizontal"}
    /\ grad' = [grad EXCEPT !.done = TRUE,
                  !.img = create_linear_gradient(grad.w, grad.h, grad.c1, grad.c2,
                                                 grad.kind = "main_vertical")]
    /\ UNCHANGED <<textVars, fs, exp, heap, call, util, hist, app>>

(***************************************************************************)
(* Canvases.  An image is [mode, w, h, px]: px is the row-major sequence   *)
(* of its pixels, each <<r, g, b, a>>.  Mode "L" and "LA" hold r = g = b;  *)
(* modes without an alpha band hold a = 255; a "P" image holds the colour  *)
(* and the transparency its palette gives each pixel.                      *)
(***************************************************************************)
Image(mode, w, h, px) == [mode |-> mode, w |-> w, h |-> h, px |-> px]

HasAlphaBand(mode) == mode \in {"RGBA", "LA"}

\* ((x + 128) >> 8 + x + 128) >> 8: Pillow's division by 255
Div255(x) == (((x + 128) \div 256) + x + 128) \div 256

\* Image.paste(im, mask=alpha) of one pixel onto an opaque background pixel
BlendPixel(bg, src, alpha) ==
    <<Div255(bg[1] * (255 - alpha) + src[1] * alpha),
      Div255(bg[2] * (255 - alpha) + src[2] * alpha),
      Div255(bg[3] * (255 - alpha) + src[3] * alpha), 255>>

\* Image.convert('RGBA'): a palette image gets its palette's colour and transparency
ConvertRGBA(img) ==
    [img EXCEPT !.mode = "RGBA",
        !.px = [i \in DOMAIN img.px |->
                   IF img.mode \in {"RGBA", "LA", "P"} THEN img.px[i]
                   ELSE <<img.px[i][1], img.px[i][2], img.px[i][3], 255>>]]

\* Image.convert('RGB'): the alpha band is dropped
ConvertRGB(img) ==
    [img EXCEPT !.mode = "RGB",
        !.px = [i \in DOMAIN img.px |->
                   <<img.px[i][1], img.px[i][2], img.px[i][3], 255>>]]

\* Image.new('RGB', size, (255, 255, 255))
WhiteBackground(img) ==
    Image("RGB", img.w, img.h, [i \in DOMAIN img.px |-> <<255, 255, 255, 255>>])

\* background.paste(im, mask=im.split()[-1])
PasteWithAlpha(background, im) ==
    [background EXCEPT
        !.px = [i \in DOMAIN background.px |->
                   BlendPixel(background.px[i], im.px[i], im.px[i][4])]]

(***************************************************************************)
(* export_options.py: ExportFormat, ExportSettings, ImageExporter          *)
(***************************************************************************)
MaxFormats == 2

\* export_options.py:18-24
ExportFormats == {"PNG", "JPEG", "WebP", "BMP", "TIFF", "PDF", "GIF"}

\* export_options.py:32-42  ExportFormat.get_extensions()
Extensions ==
    [f \in ExportFormats |->
        CASE f = "PNG" -> ".png" [] f = "JPEG" -> ".jpg" [] f = "WebP" -> ".webp"
          [] f = "BMP" -> ".bmp" [] f = "TIFF" -> ".tiff" [] f = "PDF" -> ".pdf"
          [] f = "GIF" -> ".gif"]

\* export_options.py:47-53  ExportSettings()
DefaultSettings == [format |-> "PNG", quality |-> 95, compression |-> 6]

\* export_options.py:150  get_extensions().get(fmt, '.png')
ExtensionOf(fmt) == IF fmt \in ExportFormats THEN Extensions[fmt] ELSE ".png"

\* export_options.py:77-81  the format of the settings, else of the file extension
ResolveFormat(settings, filepath) ==
    IF settings.format # "" THEN settings.format
    ELSE IF \E f \in ExportFormats : Extensions[f] = filepath[2]
         THEN CHOOSE f \in ExportFormats : Extensions[f] = filepath[2]
         ELSE "PNG"

FlattenDroppingAlpha(image, fmt) ==
    IF fmt \in {"JPEG", "BMP", "PDF"} /\ image.mode # "RGB"
    THEN ConvertRGB(image) ELSE image

\* export_options.py:84-96  the image handed to the encoder
PrepareImage(image, fmt) ==
    IF fmt \in {"JPEG", "BMP", "PDF"}
    THEN IF image.mode \in {"RGBA", "LA", "P"}
         THEN LET export_img == IF image.mode = "P" THEN ConvertRGBA(image) ELSE image
              IN  PasteWithAlpha(WhiteBackground(image), export_img)
         ELSE IF image.mode # "RGB" THEN ConvertRGB(image) ELSE image
    ELSE image

\* export_options.py:99-121  the keyword arguments the format's encoder is given
SaveKwargs(settings, fmt) ==
    CASE fmt = "PNG"  -> {"optimize", "compress_level", "dpi"}
      [] fmt = "JPEG" -> {"quality", "optimize", "progressive", "dpi"}
      [] fmt = "WebP" -> {"quality", "method"}
      [] fmt = "TIFF" -> {"compression", "dpi"}
      [] fmt = "PDF"  -> {"resolution"}
      [] OTHER -> {}

\* the encoder rejects its arguments: zlib a level outside 0..9, WebP a quality
\* outside 0..100 (libjpeg clamps its quality), JPEG an image with an alpha band
EncoderRejects(export_img, settings, fmt) ==
    \/ "compress_level" \in SaveKwargs(settings, fmt) /\ settings.compression \notin 0..9
    \/ fmt = "WebP" /\ "quality" \in SaveKwargs(settings, fmt)
          /\ settings.quality \notin 0..100
    \/ fmt = "JPEG" /\ export_img.mode \notin {"RGB", "L"}

Absent == [kind |-> "absent"]

Partial == [kind |-> "partial"]

Encoded(fmt, img) == [kind |-> "file", format |-> fmt, image |-> img]

\* export_options.py:124  export_img.save(filepath, format=fmt, **save_kwargs):
\* the exception it raises ("none": it returned) and the file it leaves.
\* An unknown format fails before the file is opened; open() fails on an unwritable
\* path; a failing encoder leaves a truncated file, which Pillow removes if the
\* call created it (removes: the Pillow at hand does so).
Save(export_img, settings, fmt, old, io_fail, removes) ==
    IF fmt \notin ExportFormats THEN [exc |-> "KeyError", file |-> old]
    ELSE IF io_fail THEN [exc |-> "OSError", file |-> old]
    ELSE IF EncoderRejects(export_img, settings, fmt)
         THEN [exc |-> "ValueError",
               file |-> IF old = Absent /\ removes THEN Absent ELSE Partial]
    ELSE [exc |-> "none", file |-> Encoded(fmt, export_img)]

CatchesOnlyOSError(exc) == exc = "OSError"

\* export_options.py:127  except Exception
Catches(exc) == exc \in {"KeyError", "OSError", "ValueError"}

\* export_options.py:59-129  ImageExporter.export_image: what it returns (ret),
\* whether an exception left it (raised), and the file it leaves at filepath
export_image(image, filepath, settings, old, io_fail, removes) ==
    LET fmt        == ResolveFormat(settings, filepath)
        export_img == PrepareImage(image, fmt)
        saved      == Save(export_img, settings, fmt, old, io_fail, removes)
    IN  [ret    |-> saved.exc = "none",
         raised |-> saved.exc # "none" /\ ~Catches(saved.exc),
         exc    |-> saved.exc,
         fmt    |-> fmt,
         file   |-> saved.file,
         \* the caller's canvas after the call: paste writes background, convert and
         \* split return new images
         image  |-> image]

\* export_options.py:153-158  the settings of one format of a batch
BatchSettings(fmt, settings_per_format) ==
    IF settings_per_format # <<>> /\ fmt \in DOMAIN settings_per_format[1]
    THEN settings_per_format[1][fmt]
    ELSE [DefaultSettings EXCEPT !.format = fmt]

StopOnFailure(success) == success

\* export_options.py:149  the loop goes on to the next format whatever the result
ContinueAfter(success) == TRUE

\* export_options.py:147-163  ImageExporter.batch_export, from format i on.
\* acc = [results, attempts, files, raised]
RECURSIVE BatchLoop(_, _, _, _, _, _, _, _)
BatchLoop(image, base_path, formats, settings_per_format, io_fails, removes, i, acc) ==
    IF i > Len(formats) THEN acc
    ELSE
        LET fmt      == formats[i]
            filepath == <<base_path, ExtensionOf(fmt)>>
            settings == BatchSettings(fmt, settings_per_format)
            r        == export_image(image, filepath, settings, acc.files[filepath],
                                     io_fails[i], removes)
            attempt  == [fmt |-> fmt, filepath |-> filepath, exc |-> r.exc,
                         encoded_as |-> r.fmt, ret |-> r.ret]
            next     == [results  |-> IF r.raised THEN acc.results
                                      ELSE (fmt :> r.ret) @@ acc.results,
                         attempts |-> Append(acc.attempts, attempt),
                         files    |-> [acc.files EXCEPT ![filepath] = r.file],
                         raised   |-> r.raised]
        IN  IF r.raised \/ ~ContinueAfter(r.ret) THEN next
            ELSE BatchLoop(image, base_path, formats, settings_per_format, io_fails,
                           removes, i + 1, next)

batch_export(image, base_path, formats, settings_per_format, io_fails, removes, files) ==
    BatchLoop(image, base_path, formats, settings_per_format, io_fails, removes, 1,
              [results |-> <<>>, attempts |-> <<>>, files |-> files, raised |-> FALSE])

\* ---- the calls checked ----
OpaqueRGB == Image("RGB", 2, 1, <<<<78, 205, 196, 255>>, <<85, 98, 112, 255>>>>)

\* a fully transparent red pixel and a half-transparent blue one
TransparentRGBA == Image("RGBA", 2, 1, <<<<200, 0, 0, 0>>, <<0, 0, 200, 128>>>>)

TransparentLA == Image("LA", 2, 1, <<<<90, 90, 90, 0>>, <<200, 200, 200, 255>>>>)

\* a palette image whose first colour is the transparent one
TransparentP == Image("P", 2, 1, <<<<10, 20, 30, 0>>, <<40, 50, 60, 255>>>>)

GrayL == Image("L", 2, 1, <<<<7, 7, 7, 255>>, <<250, 250, 250, 255>>>>)

ExportImages == {OpaqueRGB, TransparentRGBA, TransparentLA, TransparentP, GrayL}

ExportPaths == {"out"} \X ({Extensions[f] : f \in ExportFormats} \cup {".xyz"})

NoFiles == [p \in ExportPaths |-> Absent]

\* the directory before the call: empty, or holding an earlier out.png
FileSystems == {NoFiles, [NoFiles EXCEPT ![<<"out", ".png">>] = Encoded("PNG", GrayL)]}

SettingsChoices ==
    [format : ExportFormats \cup {"BOGUS", ""}, quality : {95, 1000},
     compression : {6, 99}]

\* settings_per_format: None, or a dictionary with one entry, whose format is
\* the key's, empty, or another one
PerFormatChoices ==
    {<<>>,
     << "PNG" :> [DefaultSettings EXCEPT !.compression = 99] >>,
     << "BOGUS" :> DefaultSettings >>,
     << "JPEG" :> [DefaultSettings EXCEPT !.format = ""] >>,
     << "BOGUS" :> [DefaultSettings EXCEPT !.format = "JPEG"] >>,
     << "BOGUS" :> [DefaultSettings EXCEPT !.compression = 99] >>,
     << "JPEG" :> DefaultSettings >>}

BatchFormats == {"PNG", "JPEG", "GIF", "BOGUS"}

FormatLists == UNION {[1..n -> BatchFormats] : n \in 0..MaxFormats}

NoOutcome == [raised |-> FALSE, ret |-> FALSE, exc |-> "none", fmt |-> "",
              results |-> <<>>, attempts |-> <<>>]

ExportRequests ==
    {[op |-> "export_image", done |-> FALSE, image |-> image, canvas |-> image, filepath |-> <<"out", ext>>,
      settings |-> settings, formats |-> <<>>, settings_per_format |-> <<>>,
      io_fails |-> <<io>>, removes |-> removes, before |-> NoFiles, out |-> NoOutcome] :
        image \in ExportImages, ext \in {".png", ".jpg", ".xyz"},
        settings \in {<<>>} \cup {<<st>> : st \in SettingsChoices},
        io \in BOOLEAN, removes \in BOOLEAN}
    \cup
    {[op |-> "batch_export", done |-> FALSE, image |-> image, canvas |-> image, filepath |-> <<"out", "">>,
      settings |-> <<>>, formats |-> fi[1], settings_per_format |-> per,
      io_fails |-> fi[2], removes |-> removes, before |-> NoFiles, out |-> NoOutcome] :
        image \in {OpaqueRGB, TransparentRGBA, TransparentP},
        fi \in {q \in FormatLists \X UNION {[1..n -> BOOLEAN] : n \in 0..MaxFormats} :
                    Len(q[1]) = Len(q[2])},
        per \in PerFormatChoices, removes \in BOOLEAN}

ExportInit ==
    /\ fs \in FileSystems
    /\ \E req \in ExportRequests : exp = [req EXCEPT !.before = fs]

\* a call of ImageExporter.export_image
ExportImage ==
    /\ ~exp.done
    /\ exp.op = "export_image"
    /\ LET settings == IF exp.settings = <<>> THEN DefaultSettings ELSE exp.settings[1]
           r == export_image(exp.image, exp.filepath, settings, fs[exp.filepath],
                             exp.io_fails[1], exp.removes)
       IN  /\ fs' = [fs EXCEPT ![exp.filepath] = r.file]
           /\ exp' = [exp EXCEPT !.done = TRUE, !.canvas = r.image,
                        !.out = [NoOutcome EXCEPT !.raised = r.raised, !.ret = r.ret,
                                                  !.exc = r.exc, !.fmt = r.fmt]]
    /\ UNCHANGED <<textVars, grad, heap, call, util, hist, app>>

\* a call of ImageExporter.batch_export
BatchExport ==
    /\ ~exp.done
    /\ exp.op = "batch_export"
    /\ LET r == batch_export(exp.image, exp.filepath[1], exp.formats,
                             exp.settings_per_format, exp.io_fails, exp.removes, fs)
       IN  /\ fs' = r.files
           /\ exp' = [exp EXCEPT !.done = TRUE,
                        !.out = [NoOutcome EXCEPT !.raised = r.raised,
                                    !.results = r.results, !.attempts = r.attempts]]
    /\ UNCHANGED <<textVars, grad, heap, call, util, hist, app>>

(***************************************************************************)
(* image_filters.py.  A filter call returns [exc, img, alias, input,       *)
(* steps, mask]: the exception that left it ("none": it returned), the     *)
(* canvas returned, whether that canvas is the input object itself, the    *)
(* input object as the call left it, the filters a preset called, and the  *)
(* mask a vignette wrote.  Factors and intensities are in tenths.          *)
(*                                                                         *)
(* Pillow's kernels are not part of this repository.  What is taken from   *)
(* Pillow: a 3x3 kernel returns a copy of a canvas thinner than 3 pixels;  *)
(* kernel, rank and Gaussian filters and Image.blend refuse palette        *)
(* images; ImageOps' lookup-table operations accept only L and RGB;        *)
(* Image.resize refuses a size below 1.  The Gaussian weights are not      *)
(* modelled: a blurred band moves every pixel to the band's mean.          *)
(***************************************************************************)
Returned(image, img) ==
    [exc |-> "none", img |-> img, alias |-> FALSE, input |-> image, steps |-> <<>>,
     mask |-> <<>>]

Raised(image, exc) ==
    [exc |-> exc, img |-> image, alias |-> FALSE, input |-> image, steps |-> <<>>,
     mask |-> <<>>]

\* Image.point(lut): the colour bands of each pixel through a 256-entry lookup
\* table, the alpha band kept
MapBands(img, lut) ==
    [img EXCEPT !.px = [i \in DOMAIN img.px |->
        <<lut[img.px[i][1]], lut[img.px[i][2]], lut[img.px[i][3]], img.px[i][4]>>]]

\* Image.convert('L'): ITU-R 601-2 luma, (r*19595 + g*38470 + b*7471 + 0x8000) >> 16
ConvertL(img) ==
    [img EXCEPT !.mode = "L",
        !.px = [i \in DOMAIN img.px |->
                   LET p == img.px[i]
                       l == IF img.mode \in {"L", "LA"} THEN p[1]
                            ELSE (p[1] * 19595 + p[2] * 38470 + p[3] * 7471 + 32768)
                                     \div 65536
                   IN  <<l, l, l, 255>>]]

\* image.filter(<3x3 kernel>): ImageFilter.SHARPEN, SMOOTH, ... on a canvas
\* without interior pixels
KernelFilter(image) ==
    IF image.mode = "P" THEN Raised(image, "ValueError")
    ELSE CASE image.w < 3 \/ image.h < 3 -> Returned(image, image)

\* ImageFilter.GaussianBlur(radius) on the bands of a canvas: size and mode kept,
\* each value an average of its band.  The weights of the average are left
\* out: every value becomes the mean of its band.
Blurred(img, radius) ==
    IF radius = 0 THEN img
    ELSE LET BandMean(ch) ==
                 SumSeq([i \in DOMAIN img.px |-> img.px[i][ch]]) \div Len(img.px)
             mean == <<BandMean(1), BandMean(2), BandMean(3),
                       IF HasAlphaBand(img.mode) THEN BandMean(4) ELSE 255>>
         IN  [img EXCEPT !.px = [i \in DOMAIN img.px |-> mean]]

\* Image.blend(im1, im2, alpha) with alpha in tenths: each band value is
\* in1 + alpha * (in2 - in1), truncated, clipped to 0..255
BlendImages(im1, im2, tenths) ==
    [im2 EXCEPT !.px = [i \in DOMAIN im2.px |->
        [ch \in 1..4 |->
            Max(0, Min(255, (10 * im1.px[i][ch]
                             + tenths * (im2.px[i][ch] - im1.px[i][ch])) \div 10))]]]

EnhanceShortcut(image, degenerate, factor) ==
    IF factor = 10 THEN [Returned(image, image) EXCEPT !.alias = TRUE]
    ELSE Returned(image, BlendImages(degenerate, image, factor))

\* ImageEnhance._Enhance.enhance(factor): Image.blend(degenerate, image, factor),
\* always a new image; Image.blend refuses palette images
Enhance(image, degenerate, factor) ==
    IF image.mode = "P" THEN Raised(image, "ValueError")
    ELSE Returned(image, BlendImages(degenerate, image, factor))

\* the degenerate image of an enhancer carries the alpha band of the image
WithAlphaOf(image, degenerate) ==
    [degenerate EXCEPT !.mode = image.mode,
        !.px = [i \in DOMAIN image.px |->
            <<degenerate.px[i][1], degenerate.px[i][2], degenerate.px[i][3],
              image.px[i][4]>>]]

\* image_filters.py:61-65  ImageAdjustments.brightness: the degenerate image of
\* ImageEnhance.Brightness is black
brightness(image, factor) ==
    Enhance(image, WithAlphaOf(image, MapBands(image, [v \in 0..255 |-> 0])), factor)

\* ImageEnhance.Contrast: int(mean of image.convert('L') + 0.5)
MeanLuma(image) ==
    LET gray  == ConvertL(image)
        total == SumSeq([i \in DOMAIN image.px |-> gray.px[i][1]])
        n     == Len(image.px)
    IN  (2 * total + n) \div (2 * n)

\* image_filters.py:67-71  ImageAdjustments.contrast: the degenerate image of
\* ImageEnhance.Contrast is the rounded mean luma, everywhere
contrast(image, factor) ==
    LET mean == MeanLuma(image)
    IN  Enhance(image, WithAlphaOf(image, MapBands(image, [v \in 0..255 |-> mean])),
                factor)

\* image_filters.py:73-77  ImageAdjustments.color: the degenerate image of
\* ImageEnhance.Color is the grayscale image
color(image, factor) == Enhance(image, WithAlphaOf(image, ConvertL(image)), factor)

\* ImageOps._lut: a lookup table applied to the bands of an L or RGB image
Lut(image, img, lut) ==
    IF img.mode = "P" THEN Raised(image, "NotImplementedError")
    ELSE IF img.mode \notin {"L", "RGB"} THEN Raised(image, "OSError")
    ELSE Returned(image, MapBands(img, lut))

\* image_filters.py:103-107  ImageAdjustments.grayscale
grayscale(image) == Returned(image, ConvertL(image))

\* image_filters.py:109-113  ImageAdjustments.posterize, bits = 4
posterize(image) == Lut(image, ConvertRGB(image), [v \in 0..255 |-> 16 * (v \div 16)])

\* image_filters.py:125-143  ArtisticEffects.sepia
sepia(image) ==
    LET gray == ConvertL(image)
    IN  Returned(image,
            Image("RGB", image.w, image.h,
                  [i \in DOMAIN image.px |->
                      LET gray_val == gray.px[i][1]
                      IN  <<Min(255, gray_val), Min(255, (gray_val * 95) \div 100),
                            Min(255, (gray_val * 82) \div 100), 255>>]))

\* image_filters.py:145-169  ArtisticEffects.vignette: the mask value at (x, y) is
\* int((1.0 - (dist / max_dist) * intensity) * 255); the mask goes into a copy
\* of the image, and the copy is pasted over black through the mask
vignette(image, intensity) ==
    LET center_x == image.w \div 2
        center_y == image.h \div 2
        m        == center_x * center_x + center_y * center_y
        Value(x, y) ==
            LET n == (x - center_x) * (x - center_x) + (y - center_y) * (y - center_y)
            IN  255 - CeilSqrtRatio(255 * 255 * intensity * intensity * n, 100 * m)
    IN  IF m = 0 THEN Raised(image, "ZeroDivisionError")
        ELSE LET mask == [i \in DOMAIN image.px |->
                             Value((i - 1) % image.w, (i - 1) \div image.w)]
             IN  [Returned(image,
                     Image("RGB", image.w, image.h,
                           [i \in DOMAIN image.px |->
                               BlendPixel(<<0, 0, 0, 255>>, image.px[i], mask[i])]))
                  EXCEPT !.mask = mask]

\* the pixel at column x, row y (both from 0)
PixelAt(img, x, y) == img.px[y * img.w + x + 1]

\* Image.resize(size, NEAREST): output pixel x reads input pixel floor((x + 0.5) * w / size)
ResizeNearest(img, w, h) ==
    Image(img.mode, w, h,
          [i \in 1..(w * h) |->
              PixelAt(img, ((2 * ((i - 1) % w) + 1) * img.w) \div (2 * w),
                           ((2 * ((i - 1) \div w) + 1) * img.h) \div (2 * h))])

\* one filter of a preset, by name, with its literal parameter
ApplyStep(step, image) ==
    CASE step[1] = "color"      -> color(image, step[2])
      [] step[1] = "contrast"   -> contrast(image, step[2])
      [] step[1] = "brightness" -> brightness(image, step[2])
      [] step[1] = "sepia"      -> sepia(image)
      [] step[1] = "vignette"   -> vignette(image, step[2])
      [] step[1] = "grayscale"  -> grayscale(image)

\* image_filters.py:216-260  a preset: img = f(img), statement after statement,
\* each filter given the canvas the one before it returned; an exception ends
\* the preset
RECURSIVE RunSteps(_, _, _, _, _)
RunSteps(steps, i, image, img, done) ==
    IF i > Len(steps) THEN [Returned(image, img) EXCEPT !.steps = done]
    ELSE LET r     == ApplyStep(steps[i], img)
             entry == [name |-> steps[i][1], param |-> steps[i][2], gets |-> img,
                       exc |-> r.exc, gives |-> r.img]
         IN  IF r.exc # "none"
             THEN [Raised(image, r.exc) EXCEPT !.steps = Append(done, entry)]
             ELSE RunSteps(steps, i + 1, image, r.img, Append(done, entry))

VintageReordered ==
    << <<"sepia", 0>>, <<"color", 7>>, <<"contrast", 9>>, <<"vignette", 3>> >>

\* image_filters.py:216-227  FilterPresets.vintage
VintageSteps ==
    << <<"color", 7>>, <<"sepia", 0>>, <<"contrast", 9>>, <<"vignette", 3>> >>

\* image_filters.py:229-240  FilterPresets.dramatic
DramaticSteps ==
    << <<"contrast", 13>>, <<"color", 8>>, <<"brightness", 9>>, <<"vignette", 4>> >>

\* image_filters.py:242-251  FilterPresets.bright_and_airy
BrightAndAirySteps == << <<"brightness", 12>>, <<"contrast", 9>>, <<"color", 11>> >>

MonochromeWithoutContrast == << <<"grayscale", 0>>, <<"contrast", 10>> >>

\* image_filters.py:253-260  FilterPresets.black_and_white_contrast
BlackAndWhiteSteps == << <<"grayscale", 0>>, <<"contrast", 15>> >>

(***************************************************************************)
(* A session of filter calls.  heap is the canvas objects alive, in the    *)
(* order they were created: [img, by, src] is a canvas, the filter that    *)
(* returned it ("input": it was loaded) and the object that filter was     *)
(* given.  Each call is given the newest canvas.  call is the last call:   *)
(* its name and parameter, the object it was given and that object's       *)
(* value before the call, the object it returned (0: it raised), the       *)
(* exception, the filters a preset called and the mask a vignette wrote.   *)
(***************************************************************************)
MaxCanvases == 3

\* the canvases a session starts from: RGB 2x2, RGB 1x1, RGBA 2x2, L 2x2, P 2x2
FilterImages ==
    { Image("RGB", 2, 2, <<<<78, 205, 196, 255>>, <<85, 98, 112, 255>>,
                           <<255, 255, 255, 255>>, <<10, 20, 30, 255>>>>),
      Image("RGB", 1, 1, <<<<78, 205, 196, 255>>>>),
      Image("RGBA", 2, 2, <<<<200, 0, 0, 0>>, <<0, 0, 200, 128>>,
                            <<0, 90, 0, 255>>, <<40, 50, 60, 255>>>>),
      Image("L", 2, 2, <<<<100, 100, 100, 255>>, <<120, 120, 120, 255>>,
                         <<140, 140, 140, 255>>, <<160, 160, 160, 255>>>>),
      Image("P", 2, 2, <<<<10, 20, 30, 255>>, <<40, 50, 60, 255>>,
                         <<10, 20, 30, 255>>, <<200, 210, 220, 255>>>>) }

\* enhancement factors 1.0 and 1.5
Factors == {10, 15}

NoCall ==
    [name |-> "none", param |-> 0, input |-> 0, output |-> 0, exc |-> "none",
     before |-> Image("RGB", 0, 0, <<>>), steps |-> <<>>, mask |-> <<>>]

FilterInit ==
    /\ \E image \in FilterImages : heap = <<[img |-> image, by |-> "input", src |-> 0]>>
    /\ call = NoCall

\* the newest canvas
Current == heap[Len(heap)].img

\* result = f(image, param), with image the newest canvas
Apply(name, param, r) ==
    /\ Len(heap) < MaxCanvases
    /\ LET input == Len(heap)
           kept  == [heap EXCEPT ![input].img = r.input]
           new   == r.exc = "none" /\ ~r.alias
       IN  /\ heap' = IF new
                      THEN Append(kept, [img |-> r.img, by |-> name, src |-> input])
                      ELSE kept
           /\ call' = [name |-> name, param |-> param, input |-> input,
                       output |-> IF r.exc # "none" THEN 0
                                  ELSE IF r.alias THEN input ELSE input + 1,
                       exc |-> r.exc, before |-> heap[input].img,
                       steps |-> r.steps, mask |-> r.mask]
    /\ UNCHANGED <<textVars, grad, fs, exp, util, hist, app>>

\* image_filters.py:18-21  BasicFilters.blur, radius = 2: GaussianBlur refuses
\* palette images
Blur ==
    Apply("blur", 2, IF Current.mode = "P" THEN Raised(Current, "ValueError")
                     ELSE Returned(Current, Blurred(Current, 2)))

\* image_filters.py:23-56  BasicFilters.sharpen ... detail
Sharpen == Apply("sharpen", 0, KernelFilter(Current))

Smooth == Apply("smooth", 0, KernelFilter(Current))

EdgeEnhance == Apply("edge_enhance", 0, KernelFilter(Current))

FindEdges == Apply("find_edges", 0, KernelFilter(Current))

Emboss == Apply("emboss", 0, KernelFilter(Current))

Contour == Apply("contour", 0, KernelFilter(Current))

Detail == Apply("detail", 0, KernelFilter(Current))

Brightness == \E factor \in Factors : Apply("brightness", factor, brightness(Current, factor))

Contrast == \E factor \in Factors : Apply("contrast", factor, contrast(Current, factor))

Color == \E factor \in Factors : Apply("color", factor, color(Current, factor))

\* image_filters.py:79-83  ImageAdjustments.sharpness: the degenerate image of
\* ImageEnhance.Sharpness is image.filter(SMOOTH)
Sharpness ==
    \E factor \in Factors :
        LET smoothed == KernelFilter(Current)
        IN  Apply("sharpness", factor,
                  IF smoothed.exc # "none" THEN smoothed
                  ELSE Enhance(Current, smoothed.img, factor))

\* image_filters.py:85-89  ImageAdjustments.auto_contrast, cutoff = 0: each band
\* stretched from [lo, hi] to [0, 255]
AutoContrast ==
    LET image == Current
        lo(ch) == CHOOSE v \in {image.px[i][ch] : i \in DOMAIN image.px} :
                      \A i \in DOMAIN image.px : v <= image.px[i][ch]
        hi(ch) == CHOOSE v \in {image.px[i][ch] : i \in DOMAIN image.px} :
                      \A i \in DOMAIN image.px : v >= image.px[i][ch]
        Stretch(v, ch) ==
            IF hi(ch) <= lo(ch) THEN v
            ELSE Max(0, Min(255, ((v - lo(ch)) * 255) \div (hi(ch) - lo(ch))))
    IN  Apply("auto_contrast", 0,
              IF image.mode = "P" THEN Raised(image, "NotImplementedError")
              ELSE IF image.mode \notin {"L", "RGB"} THEN Raised(image, "OSError")
              ELSE Returned(image,
                      [image EXCEPT !.px = [i \in DOMAIN image.px |->
                          <<Stretch(image.px[i][1], 1), Stretch(image.px[i][2], 2),
                            Stretch(image.px[i][3], 3), 255>>]]))

\* image_filters.py:91-95  ImageAdjustments.equalize: a palette image is converted
\* to RGB; with fewer than 256 pixels the histogram step is 0 and the table is
\* the identity
Equalize ==
    Apply("equalize", 0,
          CASE Len(Current.px) < 256 ->
              Lut(Current, IF Current.mode = "P" THEN ConvertRGB(Current) ELSE Current,
                  [v \in 0..255 |-> v]))

\* image_filters.py:97-101  ImageAdjustments.invert
Invert ==
    Apply("invert", 0, Lut(Current, ConvertRGB(Current), [v \in 0..255 |-> 255 - v]))

Grayscale == Apply("grayscale", 0, grayscale(Current))

Posterize == Apply("posterize", 4, posterize(Current))

\* image_filters.py:115-119  ImageAdjustments.solarize, threshold = 128
Solarize ==
    Apply("solarize", 128,
          Lut(Current, ConvertRGB(Current),
              [v \in 0..255 |-> IF v < 128 THEN v ELSE 255 - v]))

Sepia == Apply("sepia", 0, sepia(Current))

\* intensity 0.0, 0.5 or 1.0
Vignette ==
    \E intensity \in {0, 5, 10} : Apply("vignette", intensity, vignette(Current, intensity))

\* image_filters.py:171-180  ArtisticEffects.pixelate: shrunk by pixel_size and
\* enlarged back; resize refuses a size below 1
Pixelate ==
    \E pixel_size \in {1, 2, 3} :
        LET image == Current
        IN  Apply("pixelate", pixel_size,
                  IF image.w \div pixel_size < 1 \/ image.h \div pixel_size < 1
                  THEN Raised(image, "ValueError")
                  ELSE Returned(image,
                          ResizeNearest(ResizeNearest(image, image.w \div pixel_size,
                                                      image.h \div pixel_size),
                                        image.w, image.h)))

\* image_filters.py:182-186  ArtisticEffects.oil_painting, size = 5:
\* ImageFilter.MedianFilter(5), the 13th smallest value of the 5x5 window around
\* a pixel, the edge pixels repeated
OilPainting ==
    LET image == Current
        Window(ch, x, y) ==
            [d \in (-2..2) \X (-2..2) |->
                PixelAt(image, Max(0, Min(image.w - 1, x + d[1])),
                               Max(0, Min(image.h - 1, y + d[2])))[ch]]
        Median(vals) ==
            CHOOSE v \in {vals[d] : d \in DOMAIN vals} :
                /\ Cardinality({d \in DOMAIN vals : vals[d] < v}) <= 12
                /\ Cardinality({d \in DOMAIN vals : vals[d] <= v}) >= 13
    IN  Apply("oil_painting", 5,
              IF image.mode = "P" THEN Raised(image, "ValueError")
              ELSE Returned(image,
                      [image EXCEPT !.px = [i \in DOMAIN image.px |->
                          [ch \in 1..4 |->
                              Median(Window(ch, (i - 1) % image.w,
                                            (i - 1) \div image.w))]]]))

\* image_filters.py:188-200  ArtisticEffects.sketch
Sketch ==
    LET gray     == ConvertL(Current)
        inverted == MapBands(gray, [v \in 0..255 |-> 255 - v])
        blurred  == Blurred(inverted, 5)
    IN  Apply("sketch", 0, Returned(Current, BlendImages(gray, blurred, 5)))

\* image_filters.py:202-211  ArtisticEffects.cartoon: find_edges comes first
Cartoon ==
    LET edges == KernelFilter(Current)
    IN  Apply("cartoon", 0,
              IF edges.exc # "none" THEN edges
              ELSE Returned(Current,
                      BlendImages(posterize(Current).img, ConvertRGB(edges.img), 3)))

Vintage == Apply("vintage", 0, RunSteps(VintageSteps, 1, Current, Current, <<>>))

Dramatic == Apply("dramatic", 0, RunSteps(DramaticSteps, 1, Current, Current, <<>>))

BrightAndAiry ==
    Apply("bright_and_airy", 0, RunSteps(BrightAndAirySteps, 1, Current, Current, <<>>))

BlackAndWhiteContrast ==
    Apply("black_and_white_contrast", 0,
          RunSteps(BlackAndWhiteSteps, 1, Current, Current, <<>>))

(***************************************************************************)
(* Utility functions: color_palettes.py ColorUtils and main.hex_to_rgb.    *)
(* A string is the sequence of its characters.  util is the last call:     *)
(* [op, in, out, prev] = the function, its argument, its result, and the   *)
(* argument of the call before it.  A session starts from a request        *)
(* (op = "request"): the argument somebody is about to pass.               *)
(***************************************************************************)
UtilIdle == util = [op |-> "none", in |-> <<>>, out |-> <<>>, prev |-> <<>>]

\* the digits of int(s, 16) and '{:x}', by value
HexDigits ==
    <<"0", "1", "2", "3", "4", "5", "6", "7", "8", "9", "a", "b", "c", "d", "e", "f">>

\* str.lstrip('#')
LStripHash(s) ==
    LET k == CHOOSE j \in 1..(Len(s) + 1) :
                 /\ \A i \in 1..(j - 1) : s[i] = "#"
                 /\ j <= Len(s) => s[j] # "#"
    IN  SubSeq(s, k, Len(s))

\* tuple(int(hx[i:i+2], 16) for i in (0, 2, 4)) on a string of six hex digits;
\* int() takes the letters in either case
ParsePairs(hx) ==
    LET upper == <<"0", "1", "2", "3", "4", "5", "6", "7", "8", "9",
                   "A", "B", "C", "D", "E", "F">>
        Value(c) == CHOOSE v \in 0..15 : c \in {HexDigits[v + 1], upper[v + 1]}
    IN  [k \in 1..3 |-> 16 * Value(hx[2 * k - 1]) + Value(hx[2 * k])]

\* color_palettes.py:241-245  ColorUtils.hex_to_rgb, on a string that leaves six
\* digits
ColorUtilsHexToRgb ==
    /\ util.op = "request_hex"
    /\ Len(LStripHash(util.in)) = 6
    /\ util' = [op |-> "ColorUtils.hex_to_rgb", in |-> util.in,
                out |-> ParsePairs(LStripHash(util.in)), prev |-> util.in]
    /\ UNCHANGED <<textVars, grad, fs, exp, heap, call, hist, app>>

\* main.py:90-96  hex_to_rgb: blanks stripped, three digits doubled, any other
\* length gives black
MainHexToRgb ==
    /\ util.op = "request_hex"
    /\ LET hx       == util.in
           first    == CHOOSE j \in 1..(Len(hx) + 1) :
                           /\ \A i \in 1..(j - 1) : hx[i] = " "
                           /\ j <= Len(hx) => hx[j] # " "
           last     == CHOOSE j \in 0..Len(hx) :
                           /\ \A i \in (j + 1)..Len(hx) : hx[i] = " "
                           /\ j >= 1 => hx[j] # " "
           stripped == LStripHash(SubSeq(hx, first, last))
           doubled  == IF Len(stripped) = 3
                       THEN [i \in 1..6 |-> stripped[(i + 1) \div 2]]
                       ELSE stripped
       IN  util' = [op |-> "hex_to_rgb", in |-> hx,
                    out |-> IF Len(doubled) # 6 THEN <<0, 0, 0>> ELSE ParsePairs(doubled),
                    prev |-> hx]
    /\ UNCHANGED <<textVars, grad, fs, exp, heap, call, hist, app>>

RgbToHexUpper ==
    /\ util.op \in {"ColorUtils.hex_to_rgb", "hex_to_rgb"}
    /\ LET rgb   == util.out
           upper == <<"0", "1", "2", "3", "4", "5", "6", "7", "8", "9",
                      "A", "B", "C", "D", "E", "F">>
       IN  util' = [op |-> "rgb_to_hex", in |-> rgb,
                    out |-> <<"#">> \o [i \in 1..6 |->
                               LET v == rgb[(i + 1) \div 2]
                               IN  upper[(IF i % 2 = 1 THEN v \div 16 ELSE v % 16) + 1]],
                    prev |-> util.in]
    /\ UNCHANGED <<textVars, grad, fs, exp, heap, call, hist, app>>

\* color_palettes.py:247-250  ColorUtils.rgb_to_hex, '#{:02x}{:02x}{:02x}', on the
\* colour a conversion returned
RgbToHex ==
    /\ util.op \in {"ColorUtils.hex_to_rgb", "hex_to_rgb"}
    /\ LET rgb == util.out
       IN  util' = [op |-> "rgb_to_hex", in |-> rgb,
                    out |-> <<"#">> \o [i \in 1..6 |->
                               LET v == rgb[(i + 1) \div 2]
                               IN  HexDigits[(IF i % 2 = 1 THEN v \div 16
                                              ELSE v % 16) + 1]],
                    prev |-> util.in]
    /\ UNCHANGED <<textVars, grad, fs, exp, heap, call, hist, app>>

BlendSwapped ==
    /\ util.op = "request_blend"
    /\ LET color1 == util.in[1]
           color2 == util.in[2]
           ratio  == util.in[3]
       IN  util' = [op |-> "blend", in |-> util.in,
                    out |-> [k \in 1..3 |->
                                (color1[k] * ratio + color2[k] * (10 - ratio)) \div 10],
                    prev |-> util.in]
    /\ UNCHANGED <<textVars, grad, fs, exp, heap, call, hist, app>>

\* color_palettes.py:228-233  ColorUtils.blend, ratio in tenths:
\* int(c1 * (1 - ratio) + c2 * ratio) per channel
Blend ==
    /\ util.op = "request_blend"
    /\ LET color1 == util.in[1]
           color2 == util.in[2]
           ratio  == util.in[3]
       IN  util' = [op |-> "blend", in |-> util.in,
                    out |-> [k \in 1..3 |->
                                (color1[k] * (10 - ratio) + color2[k] * ratio) \div 10],
                    prev |-> util.in]
    /\ UNCHANGED <<textVars, grad, fs, exp, heap, call, hist, app>>

\* main.py:272-333  _draw_curved_text called on an application object whose
\* banner_text, font, arc_angle and curve_radius fields were set directly
DrawCurvedTextOnFields ==
    /\ util.op = "request_curved_text"
    /\ util' = [op |-> "_draw_curved_text", in |-> util.in,
                out |-> DrawCurvedText(util.in[1], util.in[2], util.in[3], util.in[4]),
                prev |-> <<>>]
    /\ UNCHANGED <<textVars, grad, fs, exp, heap, call, hist, app>>

\* drawing_tools.py:44-62  ShapeTools.draw_star: the vertex list handed to
\* draw.polygon.  Angles are whole degrees (points divides 180 in every call
\* made here), coordinates are thousandths of a pixel; sin3[k + 1] is
\* 1000 * sin(3k degrees), and cos(pi / 2), 6e-17 in floating point, is 0.
draw_star(center, outer_radius, inner_radius, points) ==
    LET sin3 == <<0, 52, 105, 156, 208, 259, 309, 358, 407, 454, 500, 545, 588, 629,
                  669, 707, 743, 777, 809, 839, 866, 891, 914, 934, 951, 966, 978,
                  988, 995, 999, 1000>>
        Sin(d) == LET n == d % 360
                  IN  IF n <= 90 THEN sin3[n \div 3 + 1]
                      ELSE IF n <= 180 THEN sin3[(180 - n) \div 3 + 1]
                      ELSE IF n <= 270 THEN -sin3[(n - 180) \div 3 + 1]
                      ELSE -sin3[(360 - n) \div 3 + 1]
        Cos(d) == Sin(d + 90)
        x == center[1]
        y == center[2]
    IN  [call |-> "polygon",
         coords |-> [k \in 1..(points * 2) |->
                        LET i      == k - 1
                            angle  == 90 + (360 * i) \div (points * 2)
                            radius == IF i % 2 = 0 THEN outer_radius ELSE inner_radius
                        IN  [radius |-> radius, angle |-> angle,
                             px |-> 1000 * x + radius * Cos(angle),
                             py |-> 1000 * y - radius * Sin(angle)]]]

DrawStarFromSecondVertex ==
    /\ util.op = "request_star"
    /\ LET star == draw_star(util.in[1], util.in[2], util.in[3], util.in[4])
       IN  util' = [op |-> "draw_star", in |-> util.in,
                    out |-> [star EXCEPT !.coords = Tail(@) \o <<Head(@)>>],
                    prev |-> <<>>]
    /\ UNCHANGED <<textVars, grad, fs, exp, heap, call, hist, app>>

\* drawing_tools.py:44-62  a call of ShapeTools.draw_star
DrawStar ==
    /\ util.op = "request_star"
    /\ util' = [op |-> "draw_star", in |-> util.in,
                out |-> draw_star(util.in[1], util.in[2], util.in[3], util.in[4]),
                prev |-> <<>>]
    /\ UNCHANGED <<textVars, grad, fs, exp, heap, call, hist, app>>

(***************************************************************************)
(* Fonts: main.load_font and font_manager.py.  A request carries the files *)
(* that exist and the files FreeType can read; ImageFont.truetype(path,    *)
(* size) returns a font when the file is readable and size > 0 and raises  *)
(* otherwise; ImageFont.load_default() always returns the built-in font.   *)
(* A result holds the exception that left the function, the font returned  *)
(* and the paths handed to truetype, in order.  The separators of the      *)
(* Windows paths are written /.                                            *)
(***************************************************************************)
LoadFontUnguarded ==
    /\ util.op = "request_load_font"
    /\ LET preferred_path == util.in[1]
           size           == util.in[2]
           readable       == util.in[4]
       IN  util' = [op |-> "load_font", in |-> util.in, prev |-> <<>>,
                    out |-> IF preferred_path \in readable /\ size > 0
                            THEN [exc |-> "none", tried |-> <<preferred_path>>,
                                  font |-> [kind |-> "truetype", path |-> preferred_path,
                                            size |-> size]]
                            ELSE [exc |-> "OSError", tried |-> <<preferred_path>>,
                                  font |-> [kind |-> "none", path |-> "", size |-> 0]]]
    /\ UNCHANGED <<textVars, grad, fs, exp, heap, call, hist, app>>

\* main.py:35-63  load_font(preferred_path, size)
LoadFont ==
    /\ util.op = "request_load_font"
    /\ LET preferred_path == util.in[1]
           size           == util.in[2]
           exists         == util.in[3]
           readable       == util.in[4]
           candidates ==
               (IF preferred_path # "" /\ preferred_path \in exists
                THEN <<preferred_path>> ELSE <<>>)
               \o <<"C:/Windows/Fonts/SegoeUI.ttf", "C:/Windows/Fonts/arial.ttf",
                    "/System/Library/Fonts/Supplemental/Arial.ttf",
                    "/System/Library/Fonts/SFNS.ttf",
                    "/usr/share/fonts/truetype/dejavu/DejaVuSans.ttf",
                    "/usr/share/fonts/truetype/liberation/LiberationSans-Regular.ttf">>
           loads == {k \in 1..Len(candidates) : candidates[k] \in readable /\ size > 0}
           first == CHOOSE k \in loads : \A l \in loads : k <= l
       IN  util' = [op |-> "load_font", in |-> util.in, prev |-> <<>>,
                    out |-> IF loads # {}
                            THEN [exc |-> "none", tried |-> SubSeq(candidates, 1, first),
                                  font |-> [kind |-> "truetype", path |-> candidates[first],
                                            size |-> size]]
                            ELSE [exc |-> "none", tried |-> candidates,
                                  font |-> [kind |-> "default", path |-> "", size |-> 0]]]
    /\ UNCHANGED <<textVars, grad, fs, exp, heap, call, hist, app>>

\* font_manager.py:24-30  FontInfo(path, family, style).load(size)
FontInfoLoad ==
    /\ util.op = "request_FontInfo_load"
    /\ LET path     == util.in[1]
           size     == util.in[2]
           readable == util.in[4]
       IN  util' = [op |-> "FontInfo.load", in |-> util.in, prev |-> <<>>,
                    out |-> [exc |-> "none", tried |-> <<path>>,
                             font |-> IF path \in readable /\ size > 0
                                      THEN [kind |-> "truetype", path |-> path, size |-> size]
                                      ELSE [kind |-> "default", path |-> "", size |-> 0]]]
    /\ UNCHANGED <<textVars, grad, fs, exp, heap, call, hist, app>>

\* font_manager.py:205-215  FontManager.load_default_font(size), with
\* default_font_paths the values of self._default_font_paths in dict order
load_default_font(default_font_paths, size, readable) ==
    LET loads == {k \in 1..Len(default_font_paths) :
                     default_font_paths[k] \in readable /\ size > 0}
        first == CHOOSE k \in loads : \A l \in loads : k <= l
    IN  IF loads # {}
        THEN [exc |-> "none", tried |-> SubSeq(default_font_paths, 1, first),
              font |-> [kind |-> "truetype", path |-> default_font_paths[first],
                        size |-> size]]
        ELSE [exc |-> "none", tried |-> default_font_paths,
              font |-> [kind |-> "default", path |-> "", size |-> 0]]

\* font_manager.py:205-215  a call of FontManager.load_default_font
LoadDefaultFont ==
    /\ util.op = "request_load_default_font"
    /\ util' = [op |-> "load_default_font", in |-> util.in, prev |-> <<>>,
                out |-> load_default_font(util.in[1], util.in[2], util.in[4])]
    /\ UNCHANGED <<textVars, grad, fs, exp, heap, call, hist, app>>

\* font_manager.py:192-203  FontManager.get_font(family, style, size); fonts is
\* self.fonts, a FontInfo a pair <<path, style>>
GetFont ==
    /\ util.op = "request_get_font"
    /\ LET default_font_paths == util.in[1]
           size     == util.in[2]
           readable == util.in[4]
           fonts    == util.in[5]
           family   == util.in[6]
           style    == util.in[7]
           load(font) ==
               [exc |-> "none", tried |-> <<font[1]>>,
                font |-> IF font[1] \in readable /\ size > 0
                         THEN [kind |-> "truetype", path |-> font[1], size |-> size]
                         ELSE [kind |-> "default", path |-> "", size |-> 0]]
           styled == IF family \in DOMAIN fonts
                     THEN {k \in 1..Len(fonts[family]) : fonts[family][k][2] = style}
                     ELSE {}
       IN  util' = [op |-> "get_font", in |-> util.in, prev |-> <<>>,
                    out |-> IF styled # {}
                            THEN load(fonts[family][CHOOSE k \in styled :
                                                        \A l \in styled : k <= l])
                            ELSE IF family \in DOMAIN fonts /\ fonts[family] # <<>>
                            THEN load(fonts[family][1])
                            ELSE load_default_font(default_font_paths, size, readable)]
    /\ UNCHANGED <<textVars, grad, fs, exp, heap, call, hist, app>>

(***************************************************************************)
(* Text effects: drawing_tools.py TextEffects and the glyph stamps of      *)
(* main._draw_curved_text.  A result is the sequence of draw.text calls,   *)
(* each the point it draws at and the fill it uses.                        *)
(***************************************************************************)
DrawTextWithOutlineOverCentre ==
    /\ util.op = "request_outline"
    /\ LET x == util.in[1][1]
           y == util.in[1][2]
           outline_width == util.in[2]
           side == 2 * outline_width + 1
       IN  util' = [op |-> "draw_text_with_outline", in |-> util.in, prev |-> <<>>,
                    out |-> [n \in 1..(side * side) |->
                                [xy |-> <<x - outline_width + ((n - 1) \div side),
                                          y - outline_width + ((n - 1) % side)>>,
                                 fill |-> "outline_color"]]
                            \o <<[xy |-> util.in[1], fill |-> "text_color"]>>]
    /\ UNCHANGED <<textVars, grad, fs, exp, heap, call, hist, app>>

\* drawing_tools.py:178-195  TextEffects.draw_text_with_outline
DrawTextWithOutline ==
    /\ util.op = "request_outline"
    /\ LET x == util.in[1][1]
           y == util.in[1][2]
           outline_width == util.in[2]
           side == 2 * outline_width + 1
           NotCentre(adj) == adj[1] # 0 \/ adj[2] # 0
           offsets == SelectSeq([n \in 1..(side * side) |->
                                    <<((n - 1) \div side) - outline_width,
                                      ((n - 1) % side) - outline_width>>], NotCentre)
       IN  util' = [op |-> "draw_text_with_outline", in |-> util.in, prev |-> <<>>,
                    out |-> [n \in 1..Len(offsets) |->
                                [xy |-> <<x + offsets[n][1], y + offsets[n][2]>>,
                                 fill |-> "outline_color"]]
                            \o <<[xy |-> util.in[1], fill |-> "text_color"]>>]
    /\ UNCHANGED <<textVars, grad, fs, exp, heap, call, hist, app>>

\* drawing_tools.py:197-213  TextEffects.draw_text_with_shadow
DrawTextWithShadow ==
    /\ util.op = "request_shadow"
    /\ LET x == util.in[1][1]
           y == util.in[1][2]
           shadow_offset == util.in[2]
       IN  util' = [op |-> "draw_text_with_shadow", in |-> util.in, prev |-> <<>>,
                    out |-> <<[xy |-> <<x + shadow_offset[1], y + shadow_offset[2]>>,
                               fill |-> "shadow_color"],
                              [xy |-> util.in[1], fill |-> "text_color"]>>]
    /\ UNCHANGED <<textVars, grad, fs, exp, heap, call, hist, app>>

\* drawing_tools.py:215-237  TextEffects.draw_text_with_glow.  trunc[i][k + 1] is
\* (int(i * cos(30k degrees)), int(i * sin(30k degrees))) as floating point
\* gives it; the fill of layer i is the glow colour at alpha
\* int(100 * (glow_radius - i) / glow_radius).
DrawTextWithGlow ==
    /\ util.op = "request_glow"
    /\ LET x == util.in[1][1]
           y == util.in[1][2]
           glow_radius == util.in[2]
           trunc ==
               << <<<<1, 0>>, <<0, 0>>, <<0, 0>>, <<0, 1>>, <<0, 0>>, <<0, 0>>,
                    <<-1, 0>>, <<0, 0>>, <<0, 0>>, <<0, -1>>, <<0, 0>>, <<0, 0>>>>,
                  <<<<2, 0>>, <<1, 0>>, <<1, 1>>, <<0, 2>>, <<0, 1>>, <<-1, 0>>,
                    <<-2, 0>>, <<-1, -1>>, <<-1, -1>>, <<0, -2>>, <<1, -1>>, <<1, -1>>>>,
                  <<<<3, 0>>, <<2, 1>>, <<1, 2>>, <<0, 3>>, <<-1, 2>>, <<-2, 1>>,
                    <<-3, 0>>, <<-2, -1>>, <<-1, -2>>, <<0, -3>>, <<1, -2>>, <<2, -1>>>> >>
       IN  util' = [op |-> "draw_text_with_glow", in |-> util.in, prev |-> <<>>,
                    out |-> [n \in 1..(12 * glow_radius) |->
                                LET i == glow_radius - ((n - 1) \div 12)
                                    k == (n - 1) % 12
                                IN  [xy |-> <<x + trunc[i][k + 1][1],
                                              y + trunc[i][k + 1][2]>>,
                                     fill |-> <<"glow_color",
                                                (100 * (glow_radius - i)) \div glow_radius>>]]
                            \o <<[xy |-> util.in[1], fill |-> "text_color"]>>]
    /\ UNCHANGED <<textVars, grad, fs, exp, heap, call, hist, app>>

\* main.py:318-326  the two gdraw.text calls that draw one glyph of the curved
\* text on its own font_size * 2 square image
DrawGlyph ==
    /\ util.op = "request_glyph"
    /\ LET font_size == util.in[1]
           sx == util.in[2][1]
           sy == util.in[2][2]
       IN  util' = [op |-> "_draw_curved_text.glyph", in |-> util.in, prev |-> <<>>,
                    out |-> <<[xy |-> <<font_size + sx, font_size + sy>>,
                               fill |-> "shadow_color"],
                              [xy |-> <<font_size, font_size>>, fill |-> "text_color"]>>]
    /\ UNCHANGED <<textVars, grad, fs, exp, heap, call, hist, app>>

(***************************************************************************)
(* undo_redo.py: HistoryManager and the commands.                          *)
(*                                                                         *)
(* A command is a record: kind "property" (PropertyChangeCommand),         *)
(* "composite" (CompositeCommand, with its sub-commands) or "callback"     *)
(* (CallbackCommand; fails holds the methods whose callback raises).  The  *)
(* target object has the attributes x and y; a value is a string, "None"   *)
(* is Python's None and "absent" means the object has no such attribute.   *)
(* hist.made holds the commands constructed and not yet executed,          *)
(* hist.executed the ids of the commands in the order execute_command ran  *)
(* them, hist.last the last call on the manager: the command it took, what *)
(* it returned or raised, the command methods it invoked in order, and the *)
(* stacks and the target before it.                                        *)
(***************************************************************************)
MaxHistory == 2

MaxCommands == 1

NoCommand ==
    [id |-> 0, kind |-> "none", property_name |-> "", new_value |-> "", old_value |-> "",
     commands |-> <<>>, fails |-> {}]

\* what a call on the manager is remembered by
Observed(h, op, command, ret, st) ==
    [op |-> op, cmd |-> command, ret |-> ret, exc |-> st.exc, log |-> st.log,
     undo_before |-> h.undo_stack, redo_before |-> h.redo_stack,
     target_before |-> h.target, prev |-> [h.last EXCEPT !.prev = <<>>]]

HistIdle ==
    hist = [max_history |-> 0, target |-> [x |-> "a", y |-> "absent"], made |-> <<>>,
            made_count |-> 0, undo_stack |-> <<>>, redo_stack |-> <<>>, executed |-> <<>>,
            last |-> [op |-> "none", cmd |-> NoCommand, ret |-> "None", exc |-> "none",
                      log |-> <<>>, undo_before |-> <<>>, redo_before |-> <<>>,
                      target_before |-> [x |-> "a", y |-> "absent"], prev |-> <<>>]]

RECURSIVE InvokeInListOrder(_, _, _)
InvokeInListOrder(commands, method, st) ==
    IF commands = <<>> \/ st.exc # "none" THEN st
    ELSE
        LET c      == Head(commands)
            called == [st EXCEPT !.log = Append(@, <<c.id, method>>)]
            after  ==
                CASE c.kind = "property" ->
                        [called EXCEPT !.target[c.property_name] =
                            IF method = "undo" THEN c.old_value ELSE c.new_value]
                  [] c.kind = "callback" ->
                        IF method \in c.fails THEN [called EXCEPT !.exc = "RuntimeError"]
                        ELSE called
                  [] c.kind = "composite" ->
                        InvokeInListOrder(c.commands,
                                          IF method = "redo" THEN "execute" ELSE method, called)
        IN  InvokeInListOrder(Tail(commands), method, after)

\* undo_redo.py:118-168  calling method ("execute", "undo" or "redo") on each of
\* commands in turn, until one raises.  PropertyChangeCommand sets the
\* attribute to new_value (execute, redo) or old_value (undo); CompositeCommand
\* runs its sub-commands, reversed for undo, and its redo is its execute;
\* CallbackCommand calls its callback, which may raise.
RECURSIVE Invoke(_, _, _)
Invoke(commands, method, st) ==
    IF commands = <<>> \/ st.exc # "none" THEN st
    ELSE
        LET c      == Head(commands)
            called == [st EXCEPT !.log = Append(@, <<c.id, method>>)]
            after  ==
                CASE c.kind = "property" ->
                        [called EXCEPT !.target[c.property_name] =
                            IF method = "undo" THEN c.old_value ELSE c.new_value]
                  [] c.kind = "callback" ->
                        IF method \in c.fails THEN [called EXCEPT !.exc = "RuntimeError"]
                        ELSE called
                  [] c.kind = "composite" ->
                        Invoke(IF method = "undo"
                               THEN [n \in 1..Len(c.commands) |->
                                        c.commands[Len(c.commands) + 1 - n]]
                               ELSE c.commands,
                               IF method = "redo" THEN "execute" ELSE method, called)
        IN  Invoke(Tail(commands), method, after)

\* undo_redo.py:121-125  PropertyChangeCommand(target, property_name, new_value):
\* old_value is read from the target when the command is constructed
NewPropertyChangeCommand ==
    /\ hist.made_count < MaxCommands
    /\ \E property_name \in {"x", "y"}, new_value \in {"b", "c"} :
          hist' = [hist EXCEPT
                      !.made_count = @ + 1,
                      !.made = Append(@,
                          [NoCommand EXCEPT
                              !.id = 101 + hist.made_count,
                              !.kind = "property",
                              !.property_name = property_name,
                              !.new_value = new_value,
                              !.old_value = IF hist.target[property_name] = "absent"
                                            THEN "None" ELSE hist.target[property_name]])]
    /\ UNCHANGED <<textVars, grad, fs, exp, heap, call, util, app>>

ExecuteCommandUnbounded ==
    /\ hist.made # <<>>
    /\ LET command == Head(hist.made)
           st      == Invoke(<<command>>, "execute",
                             [target |-> hist.target, log |-> <<>>, exc |-> "none"])
       IN  hist' = [hist EXCEPT !.target = st.target, !.made = Tail(@),
                                !.undo_stack = Append(@, command), !.redo_stack = <<>>,
                                !.executed = Append(@, command.id),
                                !.last = Observed(hist, "execute_command", command, "None",
                                                  [st EXCEPT !.exc = "none"])]
    /\ UNCHANGED <<textVars, grad, fs, exp, heap, call, util, app>>

ExecuteCommandKeepsRedo ==
    /\ hist.made # <<>>
    /\ hist.max_history > Len(hist.undo_stack) + Len(hist.redo_stack)
    /\ LET command == Head(hist.made)
           st      == Invoke(<<command>>, "execute",
                             [target |-> hist.target, log |-> <<>>, exc |-> "none"])
       IN  hist' = [hist EXCEPT !.target = st.target, !.made = Tail(@),
                                !.undo_stack = Append(@, command),
                                !.executed = Append(@, command.id),
                                !.last = Observed(hist, "execute_command", command, "None",
                                                  [st EXCEPT !.exc = "none"])]
    /\ UNCHANGED <<textVars, grad, fs, exp, heap, call, util, app>>

\* undo_redo.py:40-50  HistoryManager.execute_command(command), for any command
\* constructed and not yet executed
ExecuteCommand ==
    /\ \E k \in 1..Len(hist.made) :
          LET command == hist.made[k]
              st      == Invoke(<<command>>, "execute",
                                [target |-> hist.target, log |-> <<>>, exc |-> "none"])
              pushed  == Append(hist.undo_stack, command)
          IN  hist' =
                IF st.exc # "none"
                THEN [hist EXCEPT !.target = st.target,
                                  !.last = Observed(hist, "execute_command", command,
                                                    "raised", st)]
                ELSE [hist EXCEPT
                         !.target = st.target,
                         !.made = SubSeq(@, 1, k - 1) \o SubSeq(@, k + 1, Len(@)),
                         !.undo_stack = IF Len(pushed) > hist.max_history
                                        THEN Tail(pushed) ELSE pushed,
                         !.redo_stack = <<>>,
                         !.executed = Append(@, command.id),
                         !.last = Observed(hist, "execute_command", command, "None", st)]
    /\ UNCHANGED <<textVars, grad, fs, exp, heap, call, util, app>>

UndoReportsSuccess ==
    /\ hist.undo_stack = <<>>
    /\ hist.last.op # "undo"
    /\ hist' = [hist EXCEPT !.last = Observed(hist, "undo", NoCommand, "True",
                                 [target |-> hist.target, log |-> <<>>, exc |-> "none"])]
    /\ UNCHANGED <<textVars, grad, fs, exp, heap, call, util, app>>

\* undo_redo.py:52-64  HistoryManager.undo()
Undo ==
    /\ hist' =
          IF hist.undo_stack = <<>>
          THEN [hist EXCEPT !.last = Observed(hist, "undo", NoCommand, "False",
                                 [target |-> hist.target, log |-> <<>>, exc |-> "none"])]
          ELSE
              LET command == hist.undo_stack[Len(hist.undo_stack)]
                  popped  == SubSeq(hist.undo_stack, 1, Len(hist.undo_stack) - 1)
                  st      == Invoke(<<command>>, "undo",
                                    [target |-> hist.target, log |-> <<>>, exc |-> "none"])
              IN  IF st.exc # "none"
                  THEN [hist EXCEPT !.target = st.target, !.undo_stack = popped,
                                    !.last = Observed(hist, "undo", command, "raised", st)]
                  ELSE [hist EXCEPT !.target = st.target, !.undo_stack = popped,
                                    !.redo_stack = Append(@, command),
                                    !.last = Observed(hist, "undo", command, "True", st)]
    /\ UNCHANGED <<textVars, grad, fs, exp, heap, call, util, app>>

RedoOldestUndone ==
    /\ hist.redo_stack # <<>>
    /\ LET command == Head(hist.redo_stack)
           st      == Invoke(<<command>>, "redo",
                             [target |-> hist.target, log |-> <<>>, exc |-> "none"])
       IN  hist' = [hist EXCEPT !.target = st.target, !.redo_stack = Tail(@),
                                !.undo_stack = Append(@, command),
                                !.last = Observed(hist, "redo", command, "True",
                                                  [st EXCEPT !.exc = "none"])]
    /\ UNCHANGED <<textVars, grad, fs, exp, heap, call, util, app>>

\* undo_redo.py:66-78  HistoryManager.redo()
Redo ==
    /\ hist' =
          IF hist.redo_stack = <<>>
          THEN [hist EXCEPT !.last = Observed(hist, "redo", NoCommand, "False",
                                 [target |-> hist.target, log |-> <<>>, exc |-> "none"])]
          ELSE
              LET command == hist.redo_stack[Len(hist.redo_stack)]
                  popped  == SubSeq(hist.redo_stack, 1, Len(hist.redo_stack) - 1)
                  st      == Invoke(<<command>>, "redo",
                                    [target |-> hist.target, log |-> <<>>, exc |-> "none"])
              IN  IF st.exc # "none"
                  THEN [hist EXCEPT !.target = st.target, !.redo_stack = popped,
                                    !.last = Observed(hist, "redo", command, "raised", st)]
                  ELSE [hist EXCEPT !.target = st.target, !.redo_stack = popped,
                                    !.undo_stack = Append(@, command),
                                    !.last = Observed(hist, "redo", command, "True", st)]
    /\ UNCHANGED <<textVars, grad, fs, exp, heap, call, util, app>>

\* undo_redo.py:88-91  HistoryManager.clear_history()
ClearHistory ==
    /\ hist.undo_stack # <<>> \/ hist.redo_stack # <<>>
    /\ hist' = [hist EXCEPT !.undo_stack = <<>>, !.redo_stack = <<>>,
                            !.last = Observed(hist, "clear_history", NoCommand, "None",
                                 [target |-> hist.target, log |-> <<>>, exc |-> "none"])]
    /\ UNCHANGED <<textVars, grad, fs, exp, heap, call, util, app>>

(***************************************************************************)
(* main.py: MagicCanvasApp._generate_preview and _update_preview.          *)
(*                                                                         *)
(* A canvas is the number of the render that built it, its start colour    *)
(* and what was drawn on it, in order.  A render reads the controls: the   *)
(* Gradient Start entry, the Text Color entry, the Shadow Offset X entry   *)
(* (an IntVar, whose get() raises TclError on a text that is no number)    *)
(* and the Banner Text entry; ImageDraw raises ValueError on a fill that   *)
(* names no colour; ImageTk.PhotoImage raises when Tk cannot make the      *)
(* image.                                                                  *)
(***************************************************************************)
MaxRenders == 3

NoCanvas == [n |-> 0, start_rgb |-> <<>>, layers |-> <<>>]

AppIdle ==
    app = [image |-> NoCanvas, photo_image |-> NoCanvas, status |-> "Ready", renders |-> 0,
           last |-> [raised |-> "none", escaped |-> FALSE, image_before |-> NoCanvas,
                     base |-> NoCanvas, controls |-> <<>>]]

\* main.py:230-270  the Render button: _generate_preview, with _update_preview
RenderButton ==
    /\ app.renders < MaxRenders
    /\ \E bg_start \in {<<"#", "4", "E", "C", "D", "C", "4">>,
                        <<"#", "z", "z", "z", "z", "z", "z">>, <<"f", "0", "A">>,
                        <<"#", "1", "2", "3", "4", "5">>},
          text_color \in {"#ffffff", "no such colour"},
          shadow_x \in {"4", "abc"},
          banner_text_empty \in BOOLEAN,
          photo_image_raises \in BOOLEAN :
          LET hx       == LStripHash(bg_start)
              doubled  == IF Len(hx) = 3 THEN [k \in 1..6 |-> hx[(k + 1) \div 2]] ELSE hx
              digits   == {HexDigits[d] : d \in 1..16} \cup {"A", "B", "C", "D", "E", "F"}
              gradient == [n |-> app.renders + 1,
                           start_rgb |-> IF Len(doubled) # 6 THEN <<0, 0, 0>>
                                         ELSE ParsePairs(doubled),
                           layers |-> <<"gradient">>]
              text     == IF banner_text_empty THEN gradient
                          ELSE [gradient EXCEPT !.layers = Append(@, "curved_text")]
              base     == [text EXCEPT !.layers = Append(@, "decorations")]
              raised   ==
                  CASE shadow_x = "abc" -> "shadow_x_var.get"
                    [] Len(doubled) = 6 /\ \E k \in 1..6 : doubled[k] \notin digits ->
                          "hex_to_rgb"
                    [] ~banner_text_empty /\ text_color = "no such colour" ->
                          "_draw_curved_text"
                    [] photo_image_raises -> "_update_preview"
                    [] OTHER -> "none"
              replaced == raised \in {"none", "_update_preview"}
          IN  app' = [image |-> IF replaced THEN base ELSE app.image,
                      photo_image |-> IF raised = "none" THEN base ELSE app.photo_image,
                      status |-> IF raised = "none" THEN "Rendered successfully"
                                 ELSE "Render failed",
                      renders |-> app.renders + 1,
                      last |-> [raised |-> raised, escaped |-> FALSE,
                                image_before |-> app.image,
                                base |-> IF replaced THEN base ELSE NoCanvas,
                                controls |-> <<bg_start, text_color, shadow_x,
                                               banner_text_empty>>]]
    /\ UNCHANGED <<textVars, grad, fs, exp, heap, call, util, hist>>

(***************************************************************************)
(* Specifications                                                          *)
(***************************************************************************)
ExportIdle == fs = <<>> /\ exp = <<>>

FilterIdle == heap = <<>> /\ call = NoCall

InitText ==
    TextInit /\ GradIdle /\ ExportIdle /\ FilterIdle /\ UtilIdle
    /\ HistIdle /\ AppIdle

NextText == TypeChar \/ DeleteChar \/ SlideArcAngle \/ SlideRadius \/ BrowseFont

SpecText == InitText /\ [][NextText]_vars

InitGradient ==
    TextIdle /\ GradInit /\ ExportIdle /\ FilterIdle /\ UtilIdle
    /\ HistIdle /\ AppIdle

NextGradient == LinearGradient \/ RadialGradient \/ MainGradient

SpecGradient == InitGradient /\ [][NextGradient]_vars

InitExport ==
    TextIdle /\ GradIdle /\ ExportInit /\ FilterIdle /\ UtilIdle
    /\ HistIdle /\ AppIdle

NextExport == ExportImage \/ BatchExport

SpecExport == InitExport /\ [][NextExport]_vars

InitFilter ==
    TextIdle /\ GradIdle /\ ExportIdle /\ FilterInit /\ UtilIdle
    /\ HistIdle /\ AppIdle

NextFilter ==
    \/ Blur \/ Sharpen \/ Smooth \/ EdgeEnhance \/ FindEdges \/ Emboss \/ Contour \/ Detail
    \/ Brightness \/ Contrast \/ Color \/ Sharpness \/ AutoContrast \/ Equalize
    \/ Invert \/ Grayscale \/ Posterize \/ Solarize
    \/ Sepia \/ Vignette \/ Pixelate \/ OilPainting \/ Sketch \/ Cartoon
    \/ Vintage \/ Dramatic \/ BrightAndAiry \/ BlackAndWhiteContrast

SpecFilter == InitFilter /\ [][NextFilter]_vars

\* a session of utility calls starts from a request.  The hex strings passed:
\* every pair of digits at the red place, over three green/blue tails, bare and
\* with '#', and (for main.hex_to_rgb) one in blanks and one of three digits;
\* the blends: two colours over three channel values, at ratio 0.0, 0.5, 1.0
InitUtil ==
    /\ TextIdle /\ GradIdle /\ ExportIdle /\ FilterIdle /\ HistIdle /\ AppIdle
    /\ LET digits == {HexDigits[i] : i \in 1..16} \cup {"A", "B", "C", "D", "E", "F"}
           tails  == {<<"0", "0", "0", "0">>, <<"F", "f", "9", "a">>,
                      <<"c", "0", "0", "C">>}
           six    == {<<a, b>> \o t : a \in digits, b \in digits, t \in tails}
           hex    == six \cup {<<"#">> \o h : h \in six}
                         \cup {<<" ", "#", "4", "e", "C", "d", "c", "4", " ">>,
                               <<"#", "f", "0", "A">>}
           channel == {0, 77, 255}
           colours == channel \X channel \X channel
           blends  == colours \X colours \X {0, 5, 10}
           texts   == {<<>>, <<0>>, <<0, 0>>, <<20, 0, 100>>, <<60, 60, 60>>}
           fields  == texts \X {-2, 0} \X {0, 180, 400} \X {-50, 0, 10, 180}
           stars   == {<<50, 50>>, <<0, 0>>} \X {40, 7} \X {15, 0} \X {1, 2, 3, 4, 5, 6}
           custom  == "custom.ttf"
           bold    == "custom-bold.ttf"
           dejavu  == "/usr/share/fonts/truetype/dejavu/DejaVuSans.ttf"
           liberation ==
               "/usr/share/fonts/truetype/liberation/LiberationSans-Regular.ttf"
           sizes   == {0, 24}
           files   == {<<{}, {}>>, <<{custom}, {custom}>>, <<{custom, bold}, {bold}>>,
                       <<{custom, dejavu}, {custom, dejavu}>>,
                       <<{dejavu, liberation}, {liberation}>>,
                       <<{bold, dejavu, liberation}, {bold, dejavu, liberation}>>}
           defaults == {<<>>, <<dejavu>>, <<liberation, dejavu>>}
           catalogue == [f \in {"Custom", "Ghost"} |->
                            IF f = "Custom"
                            THEN <<<<custom, "Regular">>, <<bold, "Bold">>>>
                            ELSE <<>>]
           positions == {<<0, 0>>, <<10, 20>>, <<-4, 7>>}
           shadows   == {<<3, 3>>, <<2, 2>>, <<0, 0>>, <<-2, 5>>}
       IN  util \in
               {[op |-> "request_hex", in |-> s, out |-> <<>>, prev |-> <<>>] : s \in hex}
               \cup {[op |-> "request_blend", in |-> b, out |-> <<>>, prev |-> <<>>] :
                        b \in blends}
               \cup {[op |-> "request_curved_text", in |-> f, out |-> <<>>, prev |-> <<>>] :
                        f \in fields}
               \cup {[op |-> "request_star", in |-> st, out |-> <<>>, prev |-> <<>>] :
                        st \in stars}
               \cup {[op |-> "request_load_font", in |-> <<q, sz, e[1], e[2]>>,
                      out |-> <<>>, prev |-> <<>>] :
                        q \in {"", custom, "missing.ttf"}, sz \in sizes, e \in files}
               \cup {[op |-> "request_FontInfo_load", in |-> <<q, sz, e[1], e[2]>>,
                      out |-> <<>>, prev |-> <<>>] :
                        q \in {custom, "missing.ttf", dejavu}, sz \in sizes, e \in files}
               \cup {[op |-> "request_load_default_font", in |-> <<d, sz, e[1], e[2]>>,
                      out |-> <<>>, prev |-> <<>>] :
                        d \in defaults, sz \in sizes, e \in files}
               \cup {[op |-> "request_get_font",
                      in |-> <<d, sz, e[1], e[2], catalogue, fam, sty>>,
                      out |-> <<>>, prev |-> <<>>] :
                        d \in defaults, sz \in sizes, e \in files,
                        fam \in {"Custom", "Ghost", "Unknown"},
                        sty \in {"Regular", "Bold", "Italic"}}
               \cup {[op |-> "request_outline", in |-> <<pos, w>>, out |-> <<>>, prev |-> <<>>] :
                        pos \in positions, w \in {0, 1, 2, 3}}
               \cup {[op |-> "request_glow", in |-> <<pos, w>>, out |-> <<>>, prev |-> <<>>] :
                        pos \in positions, w \in {0, 1, 2, 3}}
               \cup {[op |-> "request_shadow", in |-> <<pos, o>>, out |-> <<>>, prev |-> <<>>] :
                        pos \in positions, o \in shadows}
               \cup {[op |-> "request_glyph", in |-> <<sz, o>>, out |-> <<>>, prev |-> <<>>] :
                        sz \in {12, 48}, o \in shadows}

SpecUtil ==
    InitUtil /\ [][ColorUtilsHexToRgb \/ MainHexToRgb \/ RgbToHex \/ Blend
                    \/ DrawCurvedTextOnFields \/ DrawStar \/ LoadFont \/ FontInfoLoad
                    \/ LoadDefaultFont \/ GetFont \/ DrawTextWithOutline
                    \/ DrawTextWithShadow \/ DrawTextWithGlow \/ DrawGlyph]_vars

\* undo_redo.py:35-38  a new HistoryManager(max_history) with empty stacks, and
\* the commands constructed before the first call
InitHistory ==
    /\ TextIdle /\ GradIdle /\ ExportIdle /\ FilterIdle /\ UtilIdle
    /\ AppIdle
    /\ LET Property(id, property_name, new_value, old_value) ==
               [NoCommand EXCEPT !.id = id, !.kind = "property",
                                 !.property_name = property_name,
                                 !.new_value = new_value, !.old_value = old_value]
           Callback(id, fails) ==
               [NoCommand EXCEPT !.id = id, !.kind = "callback", !.fails = fails]
           composite ==
               [NoCommand EXCEPT !.id = 1, !.kind = "composite",
                                 !.commands = <<Property(11, "x", "b", "a"),
                                                Callback(12, {}),
                                                Property(13, "y", "c", "None")>>]
           pools == {<<composite>>, <<Callback(2, {"undo"})>>,
                     <<Callback(3, {"execute"})>>, <<Callback(4, {"redo"})>>,
                     <<Property(5, "x", "b", "a")>>}
       IN  \E max_history \in 0..MaxHistory, pool \in pools :
              hist = [max_history |-> max_history,
                      target |-> [x |-> "a", y |-> "absent"],
                      made |-> pool, made_count |-> 0,
                      undo_stack |-> <<>>, redo_stack |-> <<>>, executed |-> <<>>,
                      last |-> [op |-> "none", cmd |-> NoCommand, ret |-> "None",
                                exc |-> "none", log |-> <<>>, undo_before |-> <<>>,
                                redo_before |-> <<>>,
                                target_before |-> [x |-> "a", y |-> "absent"],
                                prev |-> <<>>]]

SpecHistory ==
    InitHistory /\ [][NewPropertyChangeCommand \/ ExecuteCommand \/ Undo \/ Redo
                        \/ ClearHistory]_vars

\* main.py:129-131  the rendering cache before the first render
InitPreview ==
    /\ TextIdle /\ GradIdle /\ ExportIdle /\ FilterIdle /\ UtilIdle /\ HistIdle
    /\ AppIdle

SpecPreview == InitPreview /\ [][RenderButton]_vars

(***************************************************************************)
(* C1  Curved text: the angular span used to lay out the glyphs never      *)
(* exceeds the configured sweep angle.  After every _draw_curved_text the  *)
(* span theta_deg is at most the configured arc angle, every glyph centre  *)
(* lies within [start_angle, start_angle + theta_deg], and the angle       *)
(* between the first and the last glyph centre is at most the arc angle.   *)
(***************************************************************************)
C1_SweepIsHardCap ==
    arc.drawn =>
        /\ arc.theta_deg <= 100 * arc_angle
        /\ \A i \in DOMAIN arc.angles :
              /\ arc.start_angle <= arc.angles[i]
              /\ arc.angles[i] <= arc.start_angle + arc.theta_deg
        /\ \A i, j \in DOMAIN arc.angles :
              arc.angles[j] - arc.angles[i] <= 100 * arc_angle

\* a text whose natural span exceeds the sweep has been laid out
C1_Witness ==
    /\ arc.drawn
    /\ Len(banner_text) >= 2
    /\ arc.theta_total_deg > 100 * arc_angle
    /\ arc.angles[Len(banner_text)] > arc.angles[1]

(***************************************************************************)
(* C2  Gradient endpoints: in every gradient produced, the pixel at t = 0  *)
(* (first column or row, the origin, or the centre) equals the start       *)
(* colour and the pixel at t = 1 (last column or row along an axis of at   *)
(* least two pixels, the far corner, or any pixel at max_radius) equals    *)
(* the end colour; and the 100x1 horizontal black-to-white gradient has    *)
(* pixel 0 = (0,0,0) and pixel 99 within 1 unit of (255,255,255).          *)
(***************************************************************************)
Within1(p, q) == \A ch \in 1..3 : p[ch] - q[ch] \in -1..1

\* the index along the gradient axis of the last pixel, and the axis length
GradAxisLen ==
    CASE grad.kind \in {"horizontal", "main_horizontal"} -> grad.w
      [] grad.kind \in {"vertical", "main_vertical"} -> grad.h
      [] OTHER -> Max(grad.w, grad.h)

GradFirstPixels ==
    CASE grad.kind \in {"horizontal", "main_horizontal"} -> {0} \X (0..(grad.h - 1))
      [] grad.kind \in {"vertical", "main_vertical"} -> (0..(grad.w - 1)) \X {0}
      [] grad.kind = "diagonal" -> {<<0, 0>>}
      [] grad.kind = "radial" ->
            {RadialCenter(grad.w, grad.h, grad.center)}

GradLastPixels ==
    CASE grad.kind \in {"horizontal", "main_horizontal"} ->
            {grad.w - 1} \X (0..(grad.h - 1))
      [] grad.kind \in {"vertical", "main_vertical"} ->
            (0..(grad.w - 1)) \X {grad.h - 1}
      [] grad.kind = "diagonal" -> {<<grad.w - 1, grad.h - 1>>}
      [] grad.kind = "radial" ->
            LET c == RadialCenter(grad.w, grad.h, grad.center)
            IN  {p \in DOMAIN grad.img :
                    4 * ((p[1] - c[1]) * (p[1] - c[1]) + (p[2] - c[2]) * (p[2] - c[2]))
                        >= grad.w * grad.w + grad.h * grad.h}

C2_StartExact ==
    grad.done => \A p \in GradFirstPixels : grad.img[p] = grad.c1

C2_EndExact ==
    (grad.done /\ GradAxisLen >= 2) =>
        \A p \in GradLastPixels : grad.img[p] = grad.c2

C2_Scenario ==
    (grad.done /\ grad.kind = "horizontal" /\ grad.w = 100 /\ grad.h = 1
        /\ grad.c1 = Black /\ grad.c2 = White) =>
            /\ grad.img[<<0, 0>>] = Black
            /\ Within1(grad.img[<<99, 0>>], White)

C2_EndpointsExact == C2_StartExact /\ C2_EndExact /\ C2_Scenario

(***************************************************************************)
(* C3  batch_export attempts every requested format, in order, whatever    *)
(* failed before, raises nothing, and returns one entry per requested      *)
(* format, true exactly when that format's export (its last one, if the    *)
(* format is listed twice) succeeded; formats [PNG, "BOGUS"] give          *)
(* {PNG: true, BOGUS: false}.                                              *)
(***************************************************************************)
C3_BatchAttemptsEveryFormat ==
    (exp.done /\ exp.op = "batch_export") =>
        LET formats  == exp.formats
            attempts == exp.out.attempts
            results  == exp.out.results
        IN  /\ ~exp.out.raised
            /\ Len(attempts) = Len(formats)
            /\ \A i \in DOMAIN formats : attempts[i].fmt = formats[i]
            /\ DOMAIN results = {formats[i] : i \in DOMAIN formats}
            /\ \A i \in DOMAIN formats :
                  /\ attempts[i].ret <=> attempts[i].exc = "none"
                  /\ (\A j \in DOMAIN formats : j > i => formats[j] # formats[i])
                        => results[formats[i]] = attempts[i].ret
            /\ (/\ formats = <<"PNG", "BOGUS">>
                /\ exp.settings_per_format = <<>>
                /\ exp.io_fails = <<FALSE, FALSE>>)
                  => results = ("PNG" :> TRUE) @@ ("BOGUS" :> FALSE)

\* a batch whose first format failed and whose second was exported all the same
C3_Witness ==
    /\ exp.done /\ exp.op = "batch_export"
    /\ Len(exp.formats) = 2
    /\ exp.formats[1] # exp.formats[2]
    /\ ~exp.out.results[exp.formats[1]]
    /\ exp.out.results[exp.formats[2]]
    /\ fs[exp.out.attempts[2].filepath].kind = "file"

(***************************************************************************)
(* C4  export_image never raises: it returns True exactly when the file    *)
(* was encoded and saved, and False for an unknown format, an unwritable   *)
(* path and an encoder error.                                              *)
(***************************************************************************)
C4_ExportImageNeverRaises ==
    (exp.done /\ exp.op = "export_image") =>
        LET file == fs[exp.filepath]
        IN  /\ ~exp.out.raised
            /\ exp.out.ret =>
                  /\ file.kind = "file"
                  /\ file.format = exp.out.fmt
                  /\ exp.out.exc = "none"
            /\ ~exp.out.ret =>
                  /\ file = exp.before[exp.filepath] \/ file.kind # "file"
                  /\ exp.out.exc # "none"
            /\ exp.out.fmt \notin ExportFormats => ~exp.out.ret
            /\ exp.io_fails[1] => ~exp.out.ret
            /\ (exp.out.fmt = "PNG" /\ exp.settings # <<>>
                   /\ exp.settings[1].compression \notin 0..9) => ~exp.out.ret

\* an export with an invalid compression level: the encoder failed, False came back
C4_Witness ==
    /\ exp.done /\ exp.op = "export_image"
    /\ exp.out.exc = "ValueError"
    /\ ~exp.out.ret
    /\ ~exp.out.raised

(***************************************************************************)
(* C5  Exporting a canvas with transparency (RGBA, LA, P) to a format      *)
(* without alpha (JPEG, BMP, PDF) encodes an opaque RGB image: the canvas  *)
(* composited on white with its alpha as mask, so a fully transparent      *)
(* pixel is white and a fully opaque one keeps its colour; the caller's    *)
(* canvas is as it was.                                                    *)
(***************************************************************************)
C5_FlattenedOnWhite ==
    (/\ exp.done /\ exp.op = "export_image" /\ exp.out.ret
     /\ exp.out.fmt \in {"JPEG", "BMP", "PDF"}
     /\ exp.image.mode \in {"RGBA", "LA", "P"}) =>
        LET file == fs[exp.filepath]
            src  == exp.image.px
        IN  /\ file.kind = "file"
            /\ file.image.mode = "RGB"
            /\ file.image.w = exp.image.w /\ file.image.h = exp.image.h
            /\ \A i \in DOMAIN src :
                  /\ file.image.px[i][4] = 255
                  /\ \A ch \in 1..3 :
                        file.image.px[i][ch] =
                            Div255(255 * (255 - src[i][4]) + src[i][ch] * src[i][4])
                  /\ src[i][4] = 0 => file.image.px[i] = <<255, 255, 255, 255>>
                  /\ src[i][4] = 255 =>
                        file.image.px[i] = <<src[i][1], src[i][2], src[i][3], 255>>
            /\ exp.canvas = exp.image

\* the RGBA canvas with a transparent red pixel went out as JPEG, that pixel white
C5_Witness ==
    /\ exp.done /\ exp.op = "export_image" /\ exp.out.ret
    /\ exp.out.fmt = "JPEG"
    /\ exp.image = TransparentRGBA
    /\ fs[exp.filepath].image.px[1] = <<255, 255, 255, 255>>
    /\ fs[exp.filepath].image.px[2] # <<255, 255, 255, 255>>

(***************************************************************************)
(* C6  No filter, adjustment, artistic effect or preset mutates its input. *)
(* Through any sequence of filter calls every canvas that exists keeps its *)
(* pixels and its mode, the first one (the original input) included; the   *)
(* canvas a call was given is after the call what it was before; and a     *)
(* call that returns, returns a new object, never the one it was given,    *)
(* also at factor 1.0.                                                     *)
(***************************************************************************)
C6_FiltersLeaveInputUntouched ==
    /\ [](call.name # "none" =>
            /\ heap[call.input].img = call.before
            /\ call.exc = "none" =>
                  /\ call.output # call.input
                  /\ call.output = Len(heap)
                  /\ heap[call.output].src = call.input)
    /\ [][\A i \in DOMAIN heap : i \in DOMAIN heap' /\ heap'[i] = heap[i]]_vars

\* the second call of a session was brightness at factor 1.0: its result has the
\* pixels of its input and is another object
C6_Witness ==
    /\ Len(heap) = 3
    /\ call.name = "brightness" /\ call.param = 10 /\ call.exc = "none"
    /\ call.output # call.input
    /\ heap[call.output].img = heap[call.input].img

(***************************************************************************)
(* C7  Each preset applies its authored sequence of filters with literal   *)
(* parameters (factors in tenths; saturation is ImageAdjustments.color),   *)
(* in order, each filter given the canvas the previous one returned, the   *)
(* first one the preset's input, and the preset returns what the last one  *)
(* returned.  A preset that raises has run a prefix of its sequence and    *)
(* raised in the last filter it called.                                    *)
(***************************************************************************)
C7_PresetSequences ==
    LET authored ==
            CASE call.name = "vintage" ->
                    << <<"color", 7>>, <<"sepia", 0>>, <<"contrast", 9>>, <<"vignette", 3>> >>
              [] call.name = "dramatic" ->
                    << <<"contrast", 13>>, <<"color", 8>>, <<"brightness", 9>>,
                       <<"vignette", 4>> >>
              [] call.name = "bright_and_airy" ->
                    << <<"brightness", 12>>, <<"contrast", 9>>, <<"color", 11>> >>
              [] call.name = "black_and_white_contrast" ->
                    << <<"grayscale", 0>>, <<"contrast", 15>> >>
              [] OTHER -> <<>>
        ran == [k \in DOMAIN call.steps |-> <<call.steps[k].name, call.steps[k].param>>]
        n   == Len(call.steps)
    IN  call.name \in {"vintage", "dramatic", "bright_and_airy", "black_and_white_contrast"} =>
            /\ n >= 1 /\ n <= Len(authored)
            /\ ran = SubSeq(authored, 1, n)
            /\ call.steps[1].gets = call.before
            /\ \A k \in 2..n : call.steps[k].gets = call.steps[k - 1].gives
            /\ \A k \in 1..(n - 1) : call.steps[k].exc = "none"
            /\ call.steps[n].exc = call.exc
            /\ call.exc = "none" =>
                  /\ ran = authored
                  /\ heap[call.output].img = call.steps[n].gives

\* vintage returned after its four filters; sepia, second, changed what it was given
C7_Witness ==
    /\ call.name = "vintage" /\ call.exc = "none"
    /\ Len(call.steps) = 4
    /\ call.steps[2].name = "sepia"
    /\ call.steps[2].gives # call.steps[2].gets

(***************************************************************************)
(* C8  No filter, adjustment, artistic effect or preset raises on a        *)
(* paletted (P) or grayscale (L) canvas.  Stated for canvases of at least  *)
(* 2x2 and a pixelate block no larger than the canvas, where nothing       *)
(* depends on the size.                                                    *)
(***************************************************************************)
C8_AcceptsPaletteAndGray ==
    (/\ call.name # "none"
     /\ call.before.mode \in {"P", "L"}
     /\ call.before.w >= 2 /\ call.before.h >= 2
     /\ call.name = "pixelate" => call.param <= Min(call.before.w, call.before.h)) =>
        call.exc = "none"

(***************************************************************************)
(* C9  Every filter is total over canvas sizes and parameters: on an RGB   *)
(* canvas of any size from 1x1 and at any parameter (pixelate block of 1   *)
(* or more, also larger than the canvas; vignette intensity in [0,1]) it   *)
(* returns, without raising, a canvas of the width and height of its       *)
(* input, and every mask and channel value it wrote lies in [0,255].       *)
(***************************************************************************)
C9_FiltersTotal ==
    (call.name # "none" /\ call.before.mode = "RGB") =>
        /\ call.exc = "none"
        /\ heap[call.output].img.w = call.before.w
        /\ heap[call.output].img.h = call.before.h
        /\ \A i \in DOMAIN call.mask : call.mask[i] \in 0..255
        /\ \A i \in DOMAIN heap[call.output].img.px :
              \A ch \in 1..4 : heap[call.output].img.px[i][ch] \in 0..255

(***************************************************************************)
(* C10  FilterPresets.black_and_white_contrast applied to its own output:  *)
(* the second pass returns an image different from the one it was given.   *)
(***************************************************************************)
SecondPass ==
    /\ call.name = "black_and_white_contrast" /\ call.exc = "none"
    /\ heap[call.input].by = "black_and_white_contrast"

C10_SecondPassChanges == SecondPass => heap[call.output].img # call.before

\* a first-pass output has room to compound: a pixel that is neither 0 nor 255
\* and is 2 or more away from the rounded mean
HasRoom(img) ==
    \E i \in DOMAIN img.px :
        /\ img.px[i][1] > 0 /\ img.px[i][1] < 255
        /\ img.px[i][1] - MeanLuma(img) \notin -1..1

Uniform(img) == \A i \in DOMAIN img.px : img.px[i] = img.px[1]

(***************************************************************************)
(* C10 (amended)  The second pass of black_and_white_contrast is never     *)
(* deduplicated: it returns a new canvas object.  That canvas differs from *)
(* the first pass's output whenever the output has a pixel that is neither *)
(* 0 nor 255 and is 2 or more away from the output's rounded mean; on a    *)
(* uniform output (a 1x1 canvas, a flat colour) it has the same pixels.    *)
(***************************************************************************)
C10_SecondPassCompounds ==
    SecondPass =>
        /\ call.output # call.input
        /\ HasRoom(call.before) => heap[call.output].img # call.before
        /\ Uniform(call.before) => heap[call.output].img = call.before

\* the second pass pushed a mid-gray pixel of the first pass's output further
\* from the mean
C10_Witness ==
    /\ SecondPass
    /\ HasRoom(call.before)
    /\ \E i \in DOMAIN call.before.px :
          /\ call.before.px[i][1] > MeanLuma(call.before)
          /\ heap[call.output].img.px[i][1] > call.before.px[i][1]

(***************************************************************************)
(* C11  Hex round trip: for every string s of six hex digits, with or      *)
(* without a leading '#', in any letter case, rgb_to_hex(hex_to_rgb(s)) is *)
(* '#' followed by the six digits in lower case.  Holds for                *)
(* ColorUtils.hex_to_rgb and for main.hex_to_rgb.                          *)
(***************************************************************************)
SixDigits(s) ==
    LET body == IF s # <<>> /\ s[1] = "#" THEN Tail(s) ELSE s
    IN  IF Len(body) = 6
           /\ \A i \in 1..6 : body[i] \in {"0", "1", "2", "3", "4", "5", "6", "7", "8", "9",
                                           "a", "b", "c", "d", "e", "f",
                                           "A", "B", "C", "D", "E", "F"}
        THEN body ELSE <<>>

Normalised(s) ==
    LET lower == [c \in {"A", "B", "C", "D", "E", "F"} |->
                     CASE c = "A" -> "a" [] c = "B" -> "b" [] c = "C" -> "c"
                       [] c = "D" -> "d" [] c = "E" -> "e" [] c = "F" -> "f"]
    IN  <<"#">> \o [i \in 1..6 |->
                       IF SixDigits(s)[i] \in DOMAIN lower THEN lower[SixDigits(s)[i]]
                       ELSE SixDigits(s)[i]]

C11_HexRoundTrip ==
    (util.op = "rgb_to_hex" /\ SixDigits(util.prev) # <<>>) =>
        util.out = Normalised(util.prev)

\* an upper-case string without '#' came back in lower case with '#'
C11_Witness ==
    /\ util.op = "rgb_to_hex"
    /\ util.prev = <<"A", "B", "F", "f", "9", "a">>
    /\ util.out = <<"#", "a", "b", "f", "f", "9", "a">>
    /\ util.in = <<171, 255, 154>>

(***************************************************************************)
(* C12  ColorUtils.blend at the ends of the ratio: for all colours c1, c2  *)
(* with channels in 0..255, blend(c1, c2, 0.0) = c1 and                    *)
(* blend(c1, c2, 1.0) = c2.                                                *)
(***************************************************************************)
C12_BlendEndpoints ==
    util.op = "blend" =>
        /\ util.in[3] = 0 => util.out = util.in[1]
        /\ util.in[3] = 10 => util.out = util.in[2]

\* two different colours were blended at ratio 1.0
C12_Witness ==
    /\ util.op = "blend"
    /\ util.in[3] = 10
    /\ util.in[1] = <<0, 77, 255>> /\ util.in[2] = <<255, 0, 77>>
    /\ util.out = <<255, 0, 77>>

(***************************************************************************)
(* C13  Every produced gradient is monotonic per channel along its axis    *)
(* (column for horizontal, row for vertical, distance from the origin for  *)
(* diagonal, distance from the centre for radial, also with a centre that  *)
(* is not the default): a pixel further along the axis has a channel value *)
(* no smaller when end >= start and no larger when end <= start; and every *)
(* channel value lies in [0,255].                                          *)
(***************************************************************************)
C13_GradientMonotonic ==
    grad.done =>
        LET c == RadialCenter(grad.w, grad.h, grad.center)
            Along(p) ==
                CASE grad.kind \in {"horizontal", "main_horizontal"} -> p[1]
                  [] grad.kind \in {"vertical", "main_vertical"}     -> p[2]
                  [] grad.kind = "diagonal" -> p[1] * p[1] + p[2] * p[2]
                  [] grad.kind = "radial" ->
                        (p[1] - c[1]) * (p[1] - c[1]) + (p[2] - c[2]) * (p[2] - c[2])
        IN  /\ \A p \in DOMAIN grad.img : \A ch \in 1..3 : grad.img[p][ch] \in 0..255
            /\ \A p, q \in DOMAIN grad.img : \A ch \in 1..3 :
                  Along(p) <= Along(q) =>
                      /\ grad.c2[ch] >= grad.c1[ch] => grad.img[p][ch] <= grad.img[q][ch]
                      /\ grad.c2[ch] <= grad.c1[ch] => grad.img[p][ch] >= grad.img[q][ch]

\* a radial gradient around a corner: a pixel beyond max_dist has the end
\* colour, one nearer has a colour strictly between
C13_Witness ==
    /\ grad.done /\ grad.kind = "radial"
    /\ grad.w = 3 /\ grad.h = 3 /\ grad.center = <<0, 0>>
    /\ grad.c1 = Black /\ grad.c2 = White
    /\ grad.img[<<2, 2>>] = White
    /\ grad.img[<<0, 0>>] = Black
    /\ grad.img[<<1, 0>>][1] > 0 /\ grad.img[<<1, 0>>][1] < 255

(***************************************************************************)
(* C14  Horizontal and vertical linear gradients over an axis of length L: *)
(* the pixel at index i has, per channel, round(start + (end - start) * t) *)
(* with t = i / (L - 1), and t = 0 when L = 1.  A value is taken as the    *)
(* rounding when it is a nearest integer (either one at an exact half).    *)
(***************************************************************************)
C14_LinearFormula ==
    (grad.done /\ grad.kind \in {"horizontal", "vertical",
                                 "main_horizontal", "main_vertical"}) =>
        LET across == grad.kind \in {"horizontal", "main_horizontal"}
            L      == IF across THEN grad.w ELSE grad.h
        IN  \A p \in DOMAIN grad.img : \A ch \in 1..3 :
                LET i == IF across THEN p[1] ELSE p[2]
                    v == grad.img[p][ch]
                IN  IF L = 1 THEN v = grad.c1[ch]
                    ELSE LET exact == grad.c1[ch] * (L - 1) + (grad.c2[ch] - grad.c1[ch]) * i
                         IN  /\ 2 * (v * (L - 1) - exact) <= L - 1
                             /\ 2 * (exact - v * (L - 1)) <= L - 1

(***************************************************************************)
(* C15  Curved text: the span used is the smaller of the natural span      *)
(* degrees(total_width / radius) and the configured sweep, so a longer     *)
(* text is compressed to exactly the sweep and a shorter one keeps its     *)
(* natural span; in both cases start_angle = -span/2 - 90, which puts the  *)
(* middle of the span at -90 degrees.  (Angles are hundredths of a degree, *)
(* the halving rounds down by at most one hundredth.)                      *)
(***************************************************************************)
C15_SpanAndCentre ==
    arc.drawn =>
        /\ arc.radius = curve_radius
        /\ arc.theta_total_deg = Degrees(GetLength(banner_text, font_kern), curve_radius)
        /\ arc.theta_deg = Min(arc.theta_total_deg, 100 * arc_angle)
        /\ arc.theta_total_deg > 100 * arc_angle => arc.theta_deg = 100 * arc_angle
        /\ arc.theta_total_deg <= 100 * arc_angle => arc.theta_deg = arc.theta_total_deg
        /\ 2 * arc.start_angle + arc.theta_deg \in {-18001, -18000}

\* a text shorter than the sweep has been laid out at its natural span
C15_Witness ==
    /\ arc.drawn
    /\ arc.theta_total_deg > 0
    /\ arc.theta_total_deg < 100 * arc_angle
    /\ arc.theta_deg = arc.theta_total_deg
    /\ arc.start_angle < -9000
    /\ curve_radius = 400
    /\ font_kern # 0

(***************************************************************************)
(* C16  Curved text: character i is placed at start_angle + (widths before *)
(* it + its own width / 2) / totalWidth * span, where totalWidth, the sum  *)
(* of the per-character widths, is also the width the span was derived     *)
(* from; the angles are non-decreasing in text order and lie within        *)
(* [start_angle, start_angle + span].  (The paste point                    *)
(* center + radius * (cos, sin) of main.py:314-315, 333 is a function of   *)
(* this angle and is not modelled.)                                        *)
(***************************************************************************)
C16_SpanFromSameWidth ==
    arc.drawn => arc.theta_total_deg = Degrees(TotalW(banner_text), arc.radius)

C16_AnglesByWidth ==
    arc.drawn =>
        /\ DOMAIN arc.angles = 1..Len(banner_text)
        /\ \A i \in DOMAIN arc.angles :
              /\ arc.angles[i] =
                    arc.start_angle
                    + ((2 * SumFirst(banner_text, i - 1) + banner_text[i]) * arc.theta_deg)
                          \div (2 * TotalW(banner_text))
              /\ arc.start_angle <= arc.angles[i]
              /\ arc.angles[i] <= arc.start_angle + arc.theta_deg
        /\ \A i, j \in DOMAIN arc.angles : i <= j => arc.angles[i] <= arc.angles[j]

C16_PlacementFormula == C16_SpanFromSameWidth /\ C16_AnglesByWidth

(***************************************************************************)
(* C17  Curved text with an empty string is a no-op: _draw_curved_text     *)
(* returns before it computes a layout, and no glyph is placed.  (The      *)
(* canvas is written only by the paste of a placed glyph, main.py:333.)    *)
(***************************************************************************)
C17_EmptyTextIsNoOp ==
    banner_text = <<>> =>
        /\ ~arc.drawn
        /\ arc.exc = "none"
        /\ arc.angles = <<>>

\* the last character has been deleted and the preview redrawn
C17_Witness ==
    /\ banner_text = <<>>
    /\ ~arc.drawn
    /\ arc_angle = 300
    /\ curve_radius = 400

(***************************************************************************)
(* C18  Curved-text layout never divides by zero.  Whatever the fields     *)
(* hold, a non-empty text is laid out without an exception: the radius     *)
(* used is positive (a zero or negative curve_radius is clamped before the *)
(* width is converted to an angle), every character gets a placement, and  *)
(* in a text made only of zero-width characters every character is placed  *)
(* at start_angle (an angle contribution of 0).                            *)
(***************************************************************************)
C18_NoDivisionByZero ==
    (util.op = "_draw_curved_text" /\ util.in[1] # <<>>) =>
        LET text == util.in[1]
            out  == util.out
        IN  /\ out.exc = "none"
            /\ out.drawn
            /\ out.radius > 0
            /\ out.radius >= util.in[4]
            /\ DOMAIN out.angles = 1..Len(text)
            /\ SumSeq(text) = 0 => \A i \in 1..Len(text) : out.angles[i] = out.start_angle
            /\ \A i \in 1..(Len(text) - 1) :
                  (text[i + 1] = 0 /\ text[i] = 0) => out.angles[i + 1] = out.angles[i]

\* two zero-width characters have been laid out with curve_radius = 0
C18_Witness ==
    /\ util.op = "_draw_curved_text"
    /\ util.in[1] = <<0, 0>>
    /\ util.in[4] = 0
    /\ util.out.drawn
    /\ util.out.radius = 20
    /\ Len(util.out.angles) = 2

(***************************************************************************)
(* C19  ShapeTools.draw_star hands draw.polygon, which closes the outline, *)
(* exactly 2 * points vertices (10 for points = 5): the vertices at even   *)
(* indices lie at the outer radius and those at odd indices at the inner   *)
(* radius, consecutive vertices are pi / points apart, and the first       *)
(* vertex is the top one, (center.x, center.y - outer_radius).             *)
(***************************************************************************)
C19_StarVertices ==
    util.op = "draw_star" =>
        LET x            == util.in[1][1]
            y            == util.in[1][2]
            outer_radius == util.in[2]
            inner_radius == util.in[3]
            points       == util.in[4]
            coords       == util.out.coords
        IN  /\ util.out.call = "polygon"
            /\ Len(coords) = 2 * points
            /\ points = 5 => Len(coords) = 10
            /\ \A k \in 1..Len(coords) :
                  coords[k].radius = IF (k - 1) % 2 = 0 THEN outer_radius ELSE inner_radius
            /\ \A k \in 1..(Len(coords) - 1) :
                  points * (coords[k + 1].angle - coords[k].angle) = 180
            /\ coords[1].angle = 90
            /\ coords[1].px = 1000 * x
            /\ coords[1].py = 1000 * (y - outer_radius)

\* the star of the scenario has been built
C19_Witness ==
    /\ util.op = "draw_star"
    /\ util.in = <<<<50, 50>>, 40, 15, 5>>
    /\ Len(util.out.coords) = 10
    /\ util.out.coords[1].py = 10000
    /\ util.out.coords[2].radius = 15

(***************************************************************************)
(* C20  Font resolution never fails: whatever path, family, style or size  *)
(* is asked for and whatever files exist or are readable, load_font,       *)
(* FontInfo.load, FontManager.get_font and FontManager.load_default_font   *)
(* return a font and let no exception out.  The candidates are tried in    *)
(* order: the font returned is the first one tried that loads, every       *)
(* candidate tried before it failed, and the built-in default font is      *)
(* returned when every candidate of the call failed.                       *)
(***************************************************************************)
C20_FontAlwaysResolved ==
    util.op \in {"load_font", "FontInfo.load", "load_default_font", "get_font"} =>
        LET size     == util.in[2]
            exists   == util.in[3]
            readable == util.in[4]
            font     == util.out.font
            tried    == util.out.tried
            Loads(path) == path \in readable /\ size > 0
        IN  /\ util.out.exc = "none"
            /\ font.kind \in {"truetype", "default"}
            /\ font.kind = "truetype" =>
                  /\ Loads(font.path)
                  /\ font.size = size
                  /\ tried # <<>>
                  /\ font.path = tried[Len(tried)]
            /\ \A k \in 1..(Len(tried) - 1) : ~Loads(tried[k])
            /\ font.kind = "default" => \A k \in 1..Len(tried) : ~Loads(tried[k])
            /\ util.op = "load_font" =>
                  /\ (util.in[1] \in exists /\ Loads(util.in[1])) => font.path = util.in[1]
                  /\ util.in[1] \notin exists => \A k \in 1..Len(tried) : tried[k] # util.in[1]
                  /\ font.kind = "default" => Len(tried) >= 6
            /\ util.op = "FontInfo.load" => tried = <<util.in[1]>>
            /\ (util.op = "load_default_font" /\ font.kind = "default") => tried = util.in[1]
            /\ (util.op = "get_font" /\ util.in[6] \notin DOMAIN util.in[5]
                    /\ font.kind = "default") => tried = util.in[1]

\* a missing file was asked for where no font file can be read
C20_Witness ==
    /\ util.op = "load_font"
    /\ util.in[1] = "missing.ttf"
    /\ util.in[4] = {}
    /\ util.out.exc = "none"
    /\ util.out.font.kind = "default"
    /\ Len(util.out.tried) = 6

(***************************************************************************)
(* C21  Text effects draw their stamps first and the main text exactly     *)
(* once, last, at the unmodified position.  Outlined text stamps every     *)
(* offset (dx, dy) with dx, dy in [-width, width] except (0, 0), that is   *)
(* (2 * width + 1)^2 - 1 outline stamps; shadowed text stamps one shadow   *)
(* at position + shadow_offset; a glyph of the curved text draws its       *)
(* shadow at centre + shadow_offset first and the glyph at the centre      *)
(* second.                                                                 *)
(***************************************************************************)
C21_MainTextLastOnce ==
    util.op \in {"draw_text_with_outline", "draw_text_with_shadow",
                 "draw_text_with_glow", "_draw_curved_text.glyph"} =>
        LET calls    == util.out
            position == IF util.op = "_draw_curved_text.glyph"
                        THEN <<util.in[1], util.in[1]>> ELSE util.in[1]
        IN  /\ calls # <<>>
            /\ calls[Len(calls)] = [xy |-> position, fill |-> "text_color"]
            /\ \A n \in 1..(Len(calls) - 1) : calls[n].fill # "text_color"

C21_OutlineStamps ==
    util.op = "draw_text_with_outline" =>
        LET calls == util.out
            x     == util.in[1][1]
            y     == util.in[1][2]
            width == util.in[2]
            side  == 2 * width + 1
        IN  /\ Len(calls) = side * side - 1 + 1
            /\ \A n \in 1..(Len(calls) - 1) : calls[n].fill = "outline_color"
            /\ \A n, m \in 1..(Len(calls) - 1) : calls[n].xy = calls[m].xy => n = m
            /\ {calls[n].xy : n \in 1..(Len(calls) - 1)}
                  = {<<x + dx, y + dy>> : dx \in -width..width, dy \in -width..width}
                        \ {<<x, y>>}

C21_ShadowStamp ==
    util.op \in {"draw_text_with_shadow", "_draw_curved_text.glyph"} =>
        LET centre == IF util.op = "_draw_curved_text.glyph"
                      THEN <<util.in[1], util.in[1]>> ELSE util.in[1]
        IN  /\ Len(util.out) = 2
            /\ util.out[1] = [xy |-> <<centre[1] + util.in[2][1], centre[2] + util.in[2][2]>>,
                              fill |-> "shadow_color"]

C21_EffectThenText == C21_MainTextLastOnce /\ C21_OutlineStamps /\ C21_ShadowStamp

\* an outline of width 2 has been drawn: 24 stamps, then the text
C21_Witness ==
    /\ util.op = "draw_text_with_outline"
    /\ util.in = <<<<10, 20>>, 2>>
    /\ Len(util.out) = 25
    /\ util.out[1].xy = <<8, 18>>
    /\ util.out[25].xy = <<10, 20>>

(***************************************************************************)
(* C22  The history is bounded: after any sequence of execute_command,     *)
(* undo, redo and clear_history on a HistoryManager with max_history >= 0, *)
(* len(undo_stack) <= max_history and                                      *)
(* len(undo_stack) + len(redo_stack) <= max_history; an execute_command    *)
(* that would exceed the limit discards the oldest command, the bottom of  *)
(* the undo stack, and no other.                                           *)
(***************************************************************************)
C22_HistoryBounded ==
    /\ Len(hist.undo_stack) <= hist.max_history
    /\ Len(hist.undo_stack) + Len(hist.redo_stack) <= hist.max_history
    /\ (hist.last.op = "execute_command" /\ hist.last.exc = "none") =>
          LET pushed == Append(hist.last.undo_before, hist.last.cmd)
          IN  hist.undo_stack = IF Len(pushed) > hist.max_history THEN Tail(pushed)
                                ELSE pushed

\* a command was executed on a full history: the oldest one is gone
C22_Witness ==
    /\ hist.last.op = "execute_command"
    /\ hist.last.exc = "none"
    /\ hist.max_history >= 1
    /\ Len(hist.last.undo_before) = hist.max_history
    /\ Len(hist.undo_stack) = hist.max_history
    /\ hist.undo_stack[Len(hist.undo_stack)] = hist.last.cmd
    /\ \A k \in 1..Len(hist.undo_stack) : hist.undo_stack[k] # hist.last.undo_before[1]

(***************************************************************************)
(* C23  execute_command executes the command, pushes it on the undo stack  *)
(* and clears the redo stack: right after any execute_command can_redo()   *)
(* is False and, for max_history >= 1, can_undo() is True, whatever undo   *)
(* and redo calls came before.                                             *)
(***************************************************************************)
C23_ExecuteClearsRedo ==
    (hist.last.op = "execute_command" /\ hist.last.exc = "none") =>
        /\ hist.last.log # <<>>
        /\ hist.last.log[1] = <<hist.last.cmd.id, "execute">>
        /\ ~(Len(hist.redo_stack) > 0)
        /\ hist.max_history >= 1 =>
              /\ Len(hist.undo_stack) > 0
              /\ hist.undo_stack[Len(hist.undo_stack)] = hist.last.cmd

\* a command was executed while there was something to redo
C23_Witness ==
    /\ hist.last.op = "execute_command"
    /\ hist.last.exc = "none"
    /\ hist.last.redo_before # <<>>
    /\ hist.last.prev.op = "undo"
    /\ hist.redo_stack = <<>>
    /\ hist.undo_stack # <<>>

(***************************************************************************)
(* C24  undo returns True exactly when the undo stack was non-empty before *)
(* the call, and redo returns True exactly when the redo stack was; when   *)
(* either returns False both stacks are unchanged and no method of any     *)
(* command was invoked.  (A call in which the command raises returns       *)
(* nothing; see C27.)                                                      *)
(***************************************************************************)
C24_TrueIffNonEmpty ==
    (hist.last.op \in {"undo", "redo"} /\ hist.last.exc = "none") =>
        LET before == IF hist.last.op = "undo" THEN hist.last.undo_before
                      ELSE hist.last.redo_before
        IN  /\ hist.last.ret \in {"True", "False"}
            /\ hist.last.ret = "True" <=> before # <<>>
            /\ hist.last.ret = "False" =>
                  /\ hist.undo_stack = hist.last.undo_before
                  /\ hist.redo_stack = hist.last.redo_before
                  /\ hist.last.log = <<>>
                  /\ hist.target = hist.last.target_before

\* redo found nothing to redo while there was something to undo
C24_Witness ==
    /\ hist.last.op = "redo"
    /\ hist.last.ret = "False"
    /\ hist.undo_stack # <<>>
    /\ hist.last.log = <<>>

(***************************************************************************)
(* C25  A CompositeCommand executes its sub-commands in list order, undoes *)
(* them in exactly the reverse order, each one once, and its redo executes *)
(* them again in list order.                                               *)
(***************************************************************************)
C25_CompositeOrder ==
    (hist.last.cmd.kind = "composite" /\ hist.last.exc = "none") =>
        LET subs   == hist.last.cmd.commands
            n      == Len(subs)
            log    == hist.last.log
            method == CASE hist.last.op = "execute_command" -> "execute"
                        [] hist.last.op = "undo" -> "undo"
                        [] hist.last.op = "redo" -> "redo"
        IN  /\ Len(log) = n + 1
            /\ log[1] = <<hist.last.cmd.id, method>>
            /\ method \in {"execute", "redo"} =>
                  \A k \in 1..n : log[k + 1] = <<subs[k].id, "execute">>
            /\ method = "undo" =>
                  \A k \in 1..n : log[k + 1] = <<subs[n + 1 - k].id, "undo">>

\* a composite of three commands has been undone, the last one first
C25_Witness ==
    /\ hist.last.op = "undo"
    /\ hist.last.cmd.kind = "composite"
    /\ Len(hist.last.log) = 4
    /\ hist.last.log[2] = <<13, "undo">>
    /\ hist.last.log[4] = <<11, "undo">>
    /\ hist.target.x = "a"

(***************************************************************************)
(* C26  Undo restores the state before the execute: for any                *)
(* PropertyChangeCommand c run through execute_command, whenever c was     *)
(* constructed and whether or not the target had the property, undo()      *)
(* right after execute_command(c) leaves the property equal to the value   *)
(* it had immediately before c was executed.                               *)
(***************************************************************************)
C26_UndoRestoresPreExecute ==
    (/\ hist.last.op = "undo"
     /\ hist.last.ret = "True"
     /\ hist.last.cmd.kind = "property"
     /\ hist.last.prev.op = "execute_command"
     /\ hist.last.prev.exc = "none"
     /\ hist.last.prev.cmd = hist.last.cmd) =>
        hist.target[hist.last.cmd.property_name]
            = hist.last.prev.target_before[hist.last.cmd.property_name]

(***************************************************************************)
(* C27  A failing command does not corrupt the history: when a command's   *)
(* execute(), undo() or redo() raises inside execute_command, undo or      *)
(* redo, both stacks hold exactly the commands they held before the call.  *)
(***************************************************************************)
C27_FailureKeepsHistory ==
    hist.last.exc # "none" =>
        /\ hist.undo_stack = hist.last.undo_before
        /\ hist.redo_stack = hist.last.redo_before

(***************************************************************************)
(* C28  Undo and redo are LIFO inverses: undo reverts the most recently    *)
(* executed command not yet undone and redo re-applies the most recently   *)
(* undone one; undo() then redo(), and redo() then undo(), restore both    *)
(* stacks; the undo stack followed by the redo stack read from its top is  *)
(* always in execution order, so n undos followed by n redos re-apply the  *)
(* commands in the order they were executed.                               *)
(***************************************************************************)
RECURSIVE IsSubsequence(_, _)
IsSubsequence(a, b) ==
    IF a = <<>> THEN TRUE
    ELSE IF b = <<>> THEN FALSE
    ELSE IF Head(a) = Head(b) THEN IsSubsequence(Tail(a), Tail(b))
    ELSE IsSubsequence(a, Tail(b))

C28_LifoInverses ==
    LET last   == hist.last
        Top(q) == q[Len(q)]
        Pop(q) == SubSeq(q, 1, Len(q) - 1)
        line   == hist.undo_stack
                  \o [k \in 1..Len(hist.redo_stack) |->
                         hist.redo_stack[Len(hist.redo_stack) + 1 - k]]
    IN  /\ (last.op = "undo" /\ last.ret = "True") =>
              /\ last.cmd = Top(last.undo_before)
              /\ last.log[1] = <<last.cmd.id, "undo">>
              /\ hist.undo_stack = Pop(last.undo_before)
              /\ hist.redo_stack = Append(last.redo_before, last.cmd)
        /\ (last.op = "redo" /\ last.ret = "True") =>
              /\ last.cmd = Top(last.redo_before)
              /\ last.log[1] = <<last.cmd.id, "redo">>
              /\ hist.redo_stack = Pop(last.redo_before)
              /\ hist.undo_stack = Append(last.undo_before, last.cmd)
        /\ (last.ret = "True" /\ last.prev.ret = "True"
                /\ <<last.prev.op, last.op>> \in {<<"undo", "redo">>, <<"redo", "undo">>}) =>
              /\ hist.undo_stack = last.prev.undo_before
              /\ hist.redo_stack = last.prev.redo_before
        /\ IsSubsequence([k \in 1..Len(line) |-> line[k].id], hist.executed)

\* two commands were undone and then both redone, back in execution order
C28_Witness ==
    /\ hist.last.op = "redo"
    /\ hist.last.ret = "True"
    /\ hist.last.prev.op = "redo"
    /\ hist.last.prev.ret = "True"
    /\ hist.redo_stack = <<>>
    /\ Len(hist.undo_stack) = 2
    /\ hist.executed = <<hist.undo_stack[1].id, hist.undo_stack[2].id>>

\* C29: a batch export never loses or mislabels a completed format: for every
\* requested format key f with results[f] true, the file at base_path +
\* extension(f) at the end of batch_export holds the image encoded in format f
\* (flattened as that format requires); no other entry of the batch overwrites it
\* or writes another encoding there.
C29_CompletedFormatKept ==
    (exp.op = "batch_export" /\ exp.done /\ ~exp.out.raised) =>
        \A f \in DOMAIN exp.out.results :
            exp.out.results[f] =>
                fs[<<exp.filepath[1], ExtensionOf(f)>>] = Encoded(f, PrepareImage(exp.image, f))

\* C30: _generate_preview never propagates an exception and its status agrees
\* with the cached image: after any sequence of renders the status is
\* "Rendered successfully" exactly when self.image was replaced by the newly built
\* canvas (gradient, then curved text, then decorations) and the preview shows
\* it; whenever the status is "Render failed", self.image is still the image of
\* before the render.
C30_StatusMatchesImage ==
    app.renders > 0 =>
        /\ ~app.last.escaped
        /\ app.status \in {"Rendered successfully", "Render failed"}
        /\ app.status = "Rendered successfully" <=>
               /\ app.image.n = app.renders
               /\ app.image = app.last.base
               /\ app.photo_image = app.image
        /\ app.status = "Rendered successfully" =>
               app.image.layers \in {<<"gradient", "decorations">>,
                                     <<"gradient", "curved_text", "decorations">>}
        /\ app.status = "Render failed" => app.image = app.last.image_before

====
